---- MODULE Spec2Model ----
\* Q-Less: the placement-first backtracking solver (app/lib/solver.ts), the
\* word-combination solver (app/lib/solver-v4.ts) and the game state they
\* feed (app/lib/gameState.ts), as one state machine.
EXTENDS Integers, Sequences, FiniteSets, TLC

VARIABLES
    pc,        \* position of the driver (solvePuzzle / solvePuzzleV4 / handleSolve)
    solver,    \* which entry point is running: "solver" or "v4"
    letters,   \* the Letter[] handed to the solver: sequence of [id, char]
    expired,   \* Date.now() > deadline of the running search
    stack,     \* call stack of solve() frames of solver.ts, root first
    ret,       \* value returned by the solve() call that just finished
    phase,     \* 1 while Phase 1 runs, 2 while Phase 2 runs
    dropIdx,   \* index into uniqueLetters of the Phase 2 attempt
    solved,    \* the grid handed to gridToPlacements (Null grid before)
    result,    \* the SolveResult returned
    game,      \* the GameState the placements are applied to
    applied,   \* number of placements handleSolve has applied
    late,      \* solvePuzzleV4: Date.now() - startTime > timeoutMs - 500
    stats,     \* solvePuzzleV4: attempts and combosChecked so far
    budget,    \* solvePuzzleV4: timeoutMs and the timeouts handed to solve()
    probe,     \* last call of the placement kernel on a free-standing grid
    gameState,       \* Game.tsx: the GameState on the screen
    draggingLetter,  \* Game.tsx: <<id>> of the tile being dragged, <<>> for null
    placedOrder      \* history: ids of the tiles on the grid, oldest placement first

vars == <<pc, solver, letters, expired, stack, ret, phase, dropIdx, solved,
          result, game, applied, late, stats, budget, probe, gameState,
          draggingLetter, placedOrder>>

-----------------------------------------------------------------------------
\* Program constants

GRID_SIZE == 8

Null == "null"

Cells == 0 .. (GRID_SIZE - 1)

\* String.prototype.toLowerCase / toUpperCase on one character
UpperOf ==
    [a |-> "A", b |-> "B", c |-> "C", d |-> "D", e |-> "E", f |-> "F",
     g |-> "G", h |-> "H", i |-> "I", j |-> "J", k |-> "K", l |-> "L",
     m |-> "M", n |-> "N", o |-> "O", p |-> "P", q |-> "Q", r |-> "R",
     s |-> "S", t |-> "T", u |-> "U", v |-> "V", w |-> "W", x |-> "X",
     y |-> "Y", z |-> "Z"]

Alphabet == DOMAIN UpperOf

toUpperCase(c) == IF c \in Alphabet THEN UpperOf[c] ELSE c

toLowerCase(c) ==
    IF \E l \in Alphabet : UpperOf[l] = c
    THEN CHOOSE l \in Alphabet : UpperOf[l] = c
    ELSE c

LowerWord(w) == [i \in 1 .. Len(w) |-> toLowerCase(w[i])]

-----------------------------------------------------------------------------
\* Dictionary (app/lib/words.ts is not among the sources: the word list is a
\* small list of lowercase words, the two queries follow the dictionary
\* contract: case-insensitive membership, and the words whose letter counts
\* are dominated by a multiset, length 3..12, in list order)

VALID_WORDS ==
    << <<"p","i","r","a","t","e","s">>,
       <<"p","l","a","n","e","t">>,
       <<"m","o","s","t","l","y">>,
       <<"s","h","a","d","o","w">>,
       <<"h","e","a","r","t">>,
       <<"o","a","k">>,
       <<"b","o","x">>,
       <<"d","a","d">>,
       <<"d","a","d","a">>,
       <<"d","a","d","d","y">> >>

WordSet == {VALID_WORDS[i] : i \in 1 .. Len(VALID_WORDS)}

isValidWord(word) == LowerWord(word) \in WordSet

\* number of occurrences of character c in the sequence w
CountIn(w, c) == Cardinality({i \in 1 .. Len(w) : w[i] = c})

getWordsFromLetters(counts) ==
    SelectSeq(VALID_WORDS,
              LAMBDA w : /\ Len(w) >= 3
                         /\ Len(w) <= 12
                         /\ \A i \in 1 .. Len(w) :
                               /\ w[i] \in DOMAIN counts
                               /\ CountIn(w, w[i]) <= counts[w[i]])

-----------------------------------------------------------------------------
\* Grid utilities (solver.ts)

createEmptyGrid == [r \in Cells |-> [c \in Cells |-> Null]]

gridHasLetters(grid) == \E r \in Cells : \E c \in Cells : grid[r][c] # Null

\* Map<string, number>: a function on the alphabet, 0 for an absent key
EmptyCounts == [c \in Alphabet |-> 0]

MapSize(counts) == Cardinality({c \in Alphabet : counts[c] > 0})

\* letterCounts built from the lowercased chars of a tile list
LetterCounts(chars) ==
    [c \in Alphabet |-> Cardinality({i \in 1 .. Len(chars) : chars[i] = c})]

-----------------------------------------------------------------------------
\* validateAllGridWords: the scan of one row or column, cell by cell, with
\* the sentinel position GRID_SIZE that closes a run at the boundary

\* the scan without the sentinel position: it stops at the last cell
RECURSIVE ScanInside(_, _, _)
ScanInside(line, i, word) ==
    IF i >= GRID_SIZE THEN TRUE
    ELSE IF line[i] # Null
         THEN ScanInside(line, i + 1, Append(word, line[i]))
         ELSE IF Len(word) = 2 THEN FALSE
         ELSE IF Len(word) >= 3 /\ ~isValidWord(word) THEN FALSE
         ELSE ScanInside(line, i + 1, <<>>)

RECURSIVE ScanLine(_, _, _)
ScanLine(line, i, word) ==
    IF i > GRID_SIZE THEN TRUE
    ELSE LET cell == IF i < GRID_SIZE THEN line[i] ELSE Null IN
         IF cell # Null
         THEN ScanLine(line, i + 1, Append(word, cell))
         ELSE IF Len(word) = 2 THEN FALSE
         ELSE IF Len(word) >= 3 /\ ~isValidWord(word) THEN FALSE
         ELSE ScanLine(line, i + 1, <<>>)

RowOf(grid, row) == [c \in Cells |-> grid[row][c]]
ColOf(grid, col) == [r \in Cells |-> grid[r][col]]

validateAllGridWords(grid) ==
    /\ \A row \in Cells : ScanLine(RowOf(grid, row), 0, <<>>)
    /\ \A col \in Cells : ScanLine(ColOf(grid, col), 0, <<>>)

-----------------------------------------------------------------------------
\* tryPlaceWord

\* cell i (0-based) of a word laid from (startRow, startCol)
RowAt(startRow, direction, i) == IF direction = "h" THEN startRow ELSE startRow + i
ColAt(startCol, direction, i) == IF direction = "h" THEN startCol + i ELSE startCol

InBounds(word, startRow, startCol, direction) ==
    IF direction = "h"
    THEN /\ ~(startCol < 0 \/ startCol + Len(word) > GRID_SIZE)
         /\ ~(startRow < 0 \/ startRow >= GRID_SIZE)
    ELSE /\ ~(startRow < 0 \/ startRow + Len(word) > GRID_SIZE)
         /\ ~(startCol < 0 \/ startCol >= GRID_SIZE)

\* the check of the cell before the start only
ExtendsRunBefore(grid, word, startRow, startCol, direction) ==
    IF direction = "h"
    THEN startCol > 0 /\ grid[startRow][startCol - 1] # Null
    ELSE startRow > 0 /\ grid[startRow - 1][startCol] # Null

\* a letter right before the start or right after the end of the word
ExtendsRun(grid, word, startRow, startCol, direction) ==
    IF direction = "h"
    THEN \/ (startCol > 0 /\ grid[startRow][startCol - 1] # Null)
         \/ (startCol + Len(word) < GRID_SIZE
               /\ grid[startRow][startCol + Len(word)] # Null)
    ELSE \/ (startRow > 0 /\ grid[startRow - 1][startCol] # Null)
         \/ (startRow + Len(word) < GRID_SIZE
               /\ grid[startRow + Len(word)][startCol] # Null)

\* the "check each position" loop with a budget test that asks only whether
\* the letter is available at all
RECURSIVE CheckPositionsOnce(_, _, _, _, _, _, _, _, _)
CheckPositionsOnce(grid, word, startRow, startCol, direction, availableLetters, i, intersectionCount, newLettersUsed) ==
    IF i >= Len(word)
    THEN [ok |-> TRUE, intersectionCount |-> intersectionCount,
          newLettersUsed |-> newLettersUsed]
    ELSE LET existing == grid[RowAt(startRow, direction, i)][ColAt(startCol, direction, i)]
             needed == word[i + 1]
         IN IF existing # Null
            THEN IF existing # needed
                 THEN [ok |-> FALSE, intersectionCount |-> intersectionCount,
                       newLettersUsed |-> newLettersUsed]
                 ELSE CheckPositionsOnce(grid, word, startRow, startCol,
                                         direction, availableLetters, i + 1,
                                         intersectionCount + 1, newLettersUsed)
            ELSE IF 1 > availableLetters[needed]
                 THEN [ok |-> FALSE, intersectionCount |-> intersectionCount,
                       newLettersUsed |-> Append(newLettersUsed, needed)]
                 ELSE CheckPositionsOnce(grid, word, startRow, startCol,
                                         direction, availableLetters, i + 1,
                                         intersectionCount,
                                         Append(newLettersUsed, needed))

\* the "check each position" loop: [ok, intersectionCount, newLettersUsed]
RECURSIVE CheckPositions(_, _, _, _, _, _, _, _, _)
CheckPositions(grid, word, startRow, startCol, direction, availableLetters, i, intersectionCount, newLettersUsed) ==
    IF i >= Len(word)
    THEN [ok |-> TRUE, intersectionCount |-> intersectionCount,
          newLettersUsed |-> newLettersUsed]
    ELSE LET existing == grid[RowAt(startRow, direction, i)][ColAt(startCol, direction, i)]
             needed == word[i + 1]
         IN IF existing # Null
            THEN IF existing # needed
                 THEN [ok |-> FALSE, intersectionCount |-> intersectionCount,
                       newLettersUsed |-> newLettersUsed]
                 ELSE CheckPositions(grid, word, startRow, startCol, direction,
                                     availableLetters, i + 1,
                                     intersectionCount + 1, newLettersUsed)
            ELSE LET used == Append(newLettersUsed, needed)
                     available == IF needed \in DOMAIN availableLetters
                                  THEN availableLetters[needed] ELSE 0
                 IN IF CountIn(used, needed) > available
                    THEN [ok |-> FALSE, intersectionCount |-> intersectionCount,
                          newLettersUsed |-> used]
                    ELSE CheckPositions(grid, word, startRow, startCol, direction,
                                        availableLetters, i + 1,
                                        intersectionCount, used)

\* the grid with the word written over it (testGrid, and applyPlacement)
WriteWord(grid, word, startRow, startCol, direction) ==
    [r \in Cells |-> [c \in Cells |->
        IF direction = "h"
        THEN IF r = startRow /\ c >= startCol /\ c < startCol + Len(word)
             THEN word[c - startCol + 1] ELSE grid[r][c]
        ELSE IF c = startCol /\ r >= startRow /\ r < startRow + Len(word)
             THEN word[r - startRow + 1] ELSE grid[r][c]]]

\* tryPlaceWord without the validation of the tentative grid
tryPlaceWordUnvalidated(grid, word, startRow, startCol, direction, availableLetters) ==
    IF ~InBounds(word, startRow, startCol, direction) THEN <<>>
    ELSE IF ExtendsRun(grid, word, startRow, startCol, direction) THEN <<>>
    ELSE LET chk == CheckPositions(grid, word, startRow, startCol, direction,
                                   availableLetters, 0, 0, <<>>)
         IN IF ~chk.ok THEN <<>>
            ELSE IF gridHasLetters(grid) /\ chk.intersectionCount = 0 THEN <<>>
            ELSE << [word |-> word, row |-> startRow, col |-> startCol,
                     direction |-> direction,
                     newLettersUsed |-> chk.newLettersUsed,
                     intersectionCount |-> chk.intersectionCount] >>

\* tryPlaceWord without the intersection requirement
tryPlaceWordAnywhere(grid, word, startRow, startCol, direction, availableLetters) ==
    IF ~InBounds(word, startRow, startCol, direction) THEN <<>>
    ELSE IF ExtendsRun(grid, word, startRow, startCol, direction) THEN <<>>
    ELSE LET chk == CheckPositions(grid, word, startRow, startCol, direction,
                                   availableLetters, 0, 0, <<>>)
         IN IF ~chk.ok THEN <<>>
            ELSE IF ~validateAllGridWords(
                        WriteWord(grid, word, startRow, startCol, direction))
                 THEN <<>>
            ELSE << [word |-> word, row |-> startRow, col |-> startCol,
                     direction |-> direction,
                     newLettersUsed |-> chk.newLettersUsed,
                     intersectionCount |-> chk.intersectionCount] >>

\* the result is <<>> (null) or <<placement>>
tryPlaceWord(grid, word, startRow, startCol, direction, availableLetters) ==
    IF ~InBounds(word, startRow, startCol, direction) THEN <<>>
    ELSE IF ExtendsRun(grid, word, startRow, startCol, direction) THEN <<>>
    ELSE LET chk == CheckPositions(grid, word, startRow, startCol, direction,
                                   availableLetters, 0, 0, <<>>)
         IN IF ~chk.ok THEN <<>>
            ELSE IF gridHasLetters(grid) /\ chk.intersectionCount = 0 THEN <<>>
            ELSE IF ~validateAllGridWords(
                        WriteWord(grid, word, startRow, startCol, direction))
                 THEN <<>>
            ELSE << [word |-> word, row |-> startRow, col |-> startCol,
                     direction |-> direction,
                     newLettersUsed |-> chk.newLettersUsed,
                     intersectionCount |-> chk.intersectionCount] >>

-----------------------------------------------------------------------------
\* Array.prototype.sort with a comparator (stable): Before(a, b) is
\* "the comparator puts a strictly before b"

RECURSIVE InsertSorted(_, _, _, _)
InsertSorted(sorted, x, Before(_, _), j) ==
    IF j > Len(sorted) THEN Append(sorted, x)
    ELSE IF Before(x, sorted[j])
         THEN SubSeq(sorted, 1, j - 1) \o <<x>> \o SubSeq(sorted, j, Len(sorted))
         ELSE InsertSorted(sorted, x, Before, j + 1)

RECURSIVE SortFrom(_, _, _, _)
SortFrom(seq, Before(_, _), k, acc) ==
    IF k > Len(seq) THEN acc
    ELSE SortFrom(seq, Before, k + 1, InsertSorted(acc, seq[k], Before, 1))

Sort(seq, Before(_, _)) == SortFrom(seq, Before, 1, <<>>)

\* Array.prototype.slice(0, n)
Slice(seq, n) == SubSeq(seq, 1, IF Len(seq) < n THEN Len(seq) ELSE n)

RECURSIVE Flatten(_, _)
Flatten(seqs, k) ==
    IF k > Len(seqs) THEN <<>> ELSE seqs[k] \o Flatten(seqs, k + 1)

-----------------------------------------------------------------------------
\* findAllPlacements

\* the filled cells in the order of the row / col loops
FilledCells(grid) ==
    SelectSeq([k \in 1 .. GRID_SIZE * GRID_SIZE |->
                  <<(k - 1) \div GRID_SIZE, (k - 1) % GRID_SIZE>>],
              LAMBDA rc : grid[rc[1]][rc[2]] # Null)

\* the start positions of the three nested loops, in order: for the filled
\* cell k and the index i of the word, first the "h" and then the "v" key
PlacementKeys(grid, word, cells) ==
    LET n == Len(word)
        At(m) == LET cell == cells[((m - 1) \div (2 * n)) + 1]
                     i == ((m - 1) % (2 * n)) \div 2
                 IN [match |-> word[i + 1] = grid[cell[1]][cell[2]],
                     key |-> IF (m - 1) % 2 = 0
                             THEN <<"h", cell[1], cell[2] - i>>
                             ELSE <<"v", cell[1] - i, cell[2]>>]
        hits == SelectSeq([m \in 1 .. 2 * n * Len(cells) |-> At(m)],
                          LAMBDA e : e.match)
    IN [k \in 1 .. Len(hits) |-> hits[k].key]

\* the seen set: each key at its first occurrence only
Dedup(keys) ==
    LET first == SelectSeq([k \in 1 .. Len(keys) |-> k],
                           LAMBDA k : \A j \in 1 .. (k - 1) : keys[j] # keys[k])
    IN [k \in 1 .. Len(first) |-> keys[first[k]]]

\* the placements pushed: the calls of tryPlaceWord that returned one
Pushed(options) ==
    LET some == SelectSeq(options, LAMBDA o : o # <<>>)
    IN [k \in 1 .. Len(some) |-> some[k][1]]

findAllPlacements(grid, word, availableLetters) ==
    IF ~gridHasLetters(grid)
    THEN \* first word: horizontally at the centre
         tryPlaceWord(grid, word, GRID_SIZE \div 2,
                      (GRID_SIZE - Len(word)) \div 2, "h", availableLetters)
    ELSE LET keys == Dedup(PlacementKeys(grid, word, FilledCells(grid)))
         IN Pushed([k \in 1 .. Len(keys) |->
                       tryPlaceWord(grid, word, keys[k][2], keys[k][3],
                                    keys[k][1], availableLetters)])

\* applyPlacement that writes every word across, whatever its direction
applyPlacementAcross(grid, placement) ==
    WriteWord(grid, placement.word, placement.row, placement.col, "h")

applyPlacement(grid, placement) ==
    WriteWord(grid, placement.word, placement.row, placement.col,
              placement.direction)

\* subtractLetters that deletes the key of every letter used
RECURSIVE subtractLettersDeleting(_, _)
subtractLettersDeleting(available, lettersUsed) ==
    IF lettersUsed = <<>> THEN available
    ELSE subtractLettersDeleting([available EXCEPT ![Head(lettersUsed)] = 0],
                                 Tail(lettersUsed))

RECURSIVE subtractLetters(_, _)
subtractLetters(available, lettersUsed) ==
    IF lettersUsed = <<>> THEN available
    ELSE LET c == Head(lettersUsed)
             count == available[c]
         IN subtractLetters(
                [available EXCEPT ![c] = IF count <= 1 THEN 0 ELSE count - 1],
                Tail(lettersUsed))

\* cloneGrid: grid.map(row => [...row]), a new array for every row
cloneGrid(grid) == [r \in Cells |-> [c \in Cells |-> grid[r][c]]]

\* A call with its effect on the object it was handed: what the caller's
\* object holds when the call has returned, and the object returned.

\* applyPlacement writing into the grid it was handed and returning it
applyPlacementInPlace(grid, placement) ==
    [grid |-> applyPlacement(grid, placement),
     newGrid |-> applyPlacement(grid, placement)]

\* applyPlacement writes into newGrid, the clone
applyPlacementCall(grid, placement) ==
    [grid |-> grid, newGrid |-> applyPlacement(cloneGrid(grid), placement)]

\* subtractLetters setting and deleting in the map it was handed
subtractLettersInPlace(available, lettersUsed) ==
    [available |-> subtractLetters(available, lettersUsed),
     result |-> subtractLetters(available, lettersUsed)]

\* subtractLetters sets and deletes in result, the new Map(available)
subtractLettersCall(available, lettersUsed) ==
    [available |-> available, result |-> subtractLetters(available, lettersUsed)]

-----------------------------------------------------------------------------
\* solve(): one frame's candidate words and the placements it descends into

\* canForm && usesAvailable
IsCandidate(word, grid, availableLetters) ==
    /\ \E i \in 1 .. Len(word) : availableLetters[word[i]] > 0
    /\ gridHasLetters(grid) \/
         \A i \in 1 .. Len(word) : availableLetters[word[i]] >= CountIn(word, word[i])

\* a.split('').filter(c => availableLetters.has(c)).length
AvailCount(word, availableLetters) ==
    Cardinality({i \in 1 .. Len(word) : availableLetters[word[i]] > 0})

CandidateOrder(availableLetters, a, b) ==
    LET aAvail == AvailCount(a, availableLetters)
        bAvail == AvailCount(b, availableLetters)
    IN IF bAvail # aAvail THEN bAvail - aAvail < 0
       ELSE Len(b) - Len(a) < 0

maxCandidates(depth) == IF depth = 0 THEN 150 ELSE 80
maxPlacements(depth) == IF depth = 0 THEN 20 ELSE 10

candidateWords(grid, availableLetters, allWords, depth) ==
    Slice(Sort(SelectSeq(allWords,
                         LAMBDA w : IsCandidate(w, grid, availableLetters)),
               LAMBDA a, b : CandidateOrder(availableLetters, a, b)),
          maxCandidates(depth))

PlacementOrder(a, b) ==
    IF Len(b.newLettersUsed) # Len(a.newLettersUsed)
    THEN Len(b.newLettersUsed) - Len(a.newLettersUsed) < 0
    ELSE b.intersectionCount - a.intersectionCount < 0

\* the placements of one candidate word the frame descends into, in order
PlacementsOf(grid, word, availableLetters, depth) ==
    Slice(Sort(findAllPlacements(grid, word, availableLetters), PlacementOrder),
          maxPlacements(depth))

\* every (word, placement) the two nested loops of the frame reach, in order
Branches(grid, availableLetters, allWords, depth) ==
    LET cands == candidateWords(grid, availableLetters, allWords, depth)
    IN Flatten([k \in 1 .. Len(cands) |->
                   PlacementsOf(grid, cands[k], availableLetters, depth)], 1)

-----------------------------------------------------------------------------
\* Inputs: the tile lists handed to the solver (chars as rolled or typed;
\* the game rolls upper case, the test harness passes lower case)

InputPool ==
    << <<"P","I","R","A","T","E","S","M","O","T","L","Y">>,
       <<"p","p","l","a","n","e","t","m","o","s","l","y">>,
       <<"p","z","l","a","n","e","t","s","h","d","o","w">>,
       <<"p","l","a","n","e","t","s","h","d","o","w">>,
       <<"h","e","a","r","t","o","k","b","x">>,
       <<"h","e","a","r","t","o","k","b","x","z","z","z">>,
       <<"z","z","z","z","z","z","z","z","z","z","z","z">> >>

NumInputs == 6

\* createLetters / createInitialState: ids letter-0, letter-1, ...
Tiles(chars) == [i \in 1 .. Len(chars) |-> [id |-> i - 1, char |-> chars[i]]]

MaxDepth == 6

-----------------------------------------------------------------------------
\* solvePuzzle (solver.ts): what the running call works on

letterChars == [i \in 1 .. Len(letters) |-> toLowerCase(letters[i].char)]

\* [...new Set(letterChars)]: first occurrences, in order
Unique(chars) ==
    SelectSeq([i \in 1 .. Len(chars) |-> <<i, chars[i]>>],
              LAMBDA e : \A j \in 1 .. (e[1] - 1) : chars[j] # e[2])

uniqueLetters == Unique(letterChars)

letterToRemove == uniqueLetters[dropIdx][2]

reducedCounts ==
    LET letterCounts == LetterCounts(letterChars)
        currentCount == letterCounts[letterToRemove]
    IN [letterCounts EXCEPT ![letterToRemove] =
            IF currentCount <= 1 THEN 0 ELSE currentCount - 1]

\* the counts the running search started from
StartCounts == IF phase = 1 THEN LetterCounts(letterChars) ELSE reducedCounts

\* allWords / reducedWords: sorted by length descending
allWords ==
    Sort(getWordsFromLetters(StartCounts), LAMBDA a, b : Len(b) - Len(a) < 0)

NoGrid == [kind |-> "null"]
AGrid(g) == [kind |-> "grid", grid |-> g]
NoRet == [kind |-> "none"]

Frame(grid, availableLetters) ==
    [grid |-> grid, availableLetters |-> availableLetters, st |-> "call",
     branches |-> <<>>, bi |-> 1]

depth == Len(stack) - 1
Top == stack[Len(stack)]
Pop == SubSeq(stack, 1, Len(stack) - 1)
SetTop(f) == [stack EXCEPT ![Len(stack)] = f]

-----------------------------------------------------------------------------
\* gridToPlacements: row-major scan, first not-yet-used tile with the letter

RECURSIVE ReifyFrom(_, _, _, _, _)
ReifyFrom(grid, tiles, cells, k, usedLetterIds) ==
    IF k > Len(cells) THEN <<>>
    ELSE LET row == cells[k][1]
             col == cells[k][2]
             char == grid[row][col]
             found == {i \in 1 .. Len(tiles) :
                          /\ toLowerCase(tiles[i].char) = toLowerCase(char)
                          /\ tiles[i].id \notin usedLetterIds}
         IN IF found # {}
            THEN LET letter == tiles[CHOOSE i \in found : \A j \in found : i <= j]
                 IN <<[letterId |-> letter.id, row |-> row, col |-> col]>>
                    \o ReifyFrom(grid, tiles, cells, k + 1,
                                 usedLetterIds \cup {letter.id})
            ELSE ReifyFrom(grid, tiles, cells, k + 1, usedLetterIds)

\* gridToPlacements that never records a tile as used
RECURSIVE ReifyReusing(_, _, _, _)
ReifyReusing(grid, tiles, cells, k) ==
    IF k > Len(cells) THEN <<>>
    ELSE LET row == cells[k][1]
             col == cells[k][2]
             found == {i \in 1 .. Len(tiles) :
                          toLowerCase(tiles[i].char) = toLowerCase(grid[row][col])}
         IN IF found # {}
            THEN <<[letterId |-> tiles[CHOOSE i \in found :
                                          \A j \in found : i <= j].id,
                    row |-> row, col |-> col]>>
                 \o ReifyReusing(grid, tiles, cells, k + 1)
            ELSE ReifyReusing(grid, tiles, cells, k + 1)

gridToPlacementsReusing(grid, tiles) ==
    ReifyReusing(grid, tiles, FilledCells(grid), 1)

gridToPlacements(grid, tiles) == ReifyFrom(grid, tiles, FilledCells(grid), 1, {})

NoResult == [placements |-> <<>>, success |-> FALSE, removedLetter |-> Null,
             returned |-> FALSE]

-----------------------------------------------------------------------------
\* Game state (gameState.ts)

NullPos == [null |-> TRUE]
NullLetter == [null |-> TRUE]

\* createInitialState with the given chars instead of a roll of the dice
createInitialState(chars) ==
    [letters |-> [i \in 1 .. Len(chars) |->
                     [id |-> i - 1, char |-> chars[i], position |-> NullPos]],
     grid |-> [r \in Cells |-> [c \in Cells |-> NullLetter]],
     isWon |-> FALSE,
     words |-> <<>>]

\* the words of one row or column: runs of length >= 2, with their cells
RECURSIVE WordsOfLine(_, _, _, _, _)
WordsOfLine(line, fixed, direction, i, run) ==
    IF i > GRID_SIZE THEN <<>>
    ELSE LET cell == IF i < GRID_SIZE THEN line[i] ELSE NullLetter IN
         IF cell # NullLetter
         THEN WordsOfLine(line, fixed, direction, i + 1, Append(run, i))
         ELSE LET currentWord == [k \in 1 .. Len(run) |-> line[run[k]].char]
                  rest == WordsOfLine(line, fixed, direction, i + 1, <<>>)
              IN IF Len(currentWord) >= 2
                 THEN <<[word |-> currentWord,
                         positions |-> [k \in 1 .. Len(run) |->
                                          IF direction = "horizontal"
                                          THEN [row |-> fixed, col |-> run[k]]
                                          ELSE [row |-> run[k], col |-> fixed]],
                         isValid |-> (Len(currentWord) >= 3
                                        /\ isValidWord(currentWord)),
                         direction |-> direction]>> \o rest
                 ELSE rest

findAllWords(grid) ==
    Flatten([k \in 1 .. GRID_SIZE |->
                WordsOfLine(RowOf(grid, k - 1), k - 1, "horizontal", 0, <<>>)], 1)
    \o
    Flatten([k \in 1 .. GRID_SIZE |->
                WordsOfLine(ColOf(grid, k - 1), k - 1, "vertical", 0, <<>>)], 1)

\* the breadth-first search: the cells reached from the first placed one
RECURSIVE Visit(_, _)
Visit(grid, visited) ==
    LET more == {rc \in Cells \X Cells :
                    /\ grid[rc[1]][rc[2]] # NullLetter
                    /\ rc \notin visited
                    /\ \E v \in visited :
                          \/ (v[1] - 1 = rc[1] /\ v[2] = rc[2])
                          \/ (v[1] + 1 = rc[1] /\ v[2] = rc[2])
                          \/ (v[1] = rc[1] /\ v[2] - 1 = rc[2])
                          \/ (v[1] = rc[1] /\ v[2] + 1 = rc[2])}
    IN IF more = {} THEN visited ELSE Visit(grid, visited \cup more)

areAllLettersConnected(grid) ==
    LET placedCells == {rc \in Cells \X Cells : grid[rc[1]][rc[2]] # NullLetter}
    IN IF placedCells = {} THEN TRUE
       ELSE LET start == CHOOSE rc \in placedCells :
                            \A o \in placedCells :
                               rc[1] < o[1] \/ (rc[1] = o[1] /\ rc[2] <= o[2])
            IN Cardinality(Visit(grid, {start})) = Cardinality(placedCells)

checkWinCondition(tiles, words, grid) ==
    /\ \A i \in 1 .. Len(tiles) : tiles[i].position # NullPos
    /\ areAllLettersConnected(grid)
    /\ \A w \in 1 .. Len(words) : words[w].isValid
    /\ ~(Len(words) < 2)
    /\ \A i \in 1 .. Len(tiles) :
          tiles[i].position # NullPos =>
             \E w \in 1 .. Len(words) :
                \E k \in 1 .. Len(words[w].positions) :
                   words[w].positions[k] = tiles[i].position

\* placeLetter without the test of the target cell
placeLetterOver(state, letterId, row, col) ==
    IF ~\E i \in 1 .. Len(state.letters) : state.letters[i].id = letterId
    THEN state
    ELSE LET letterIndex == CHOOSE i \in 1 .. Len(state.letters) :
                               state.letters[i].id = letterId
             letter == state.letters[letterIndex]
             newLetter == [letter EXCEPT !.position = [row |-> row, col |-> col]]
             cleared == IF letter.position # NullPos
                        THEN [state.grid EXCEPT
                                 ![letter.position.row][letter.position.col] =
                                     NullLetter]
                        ELSE state.grid
             newGrid == [cleared EXCEPT ![row][col] = newLetter]
             newLetters == [state.letters EXCEPT ![letterIndex] = newLetter]
             words == findAllWords(newGrid)
         IN [letters |-> newLetters, grid |-> newGrid, words |-> words,
             isWon |-> checkWinCondition(newLetters, words, newGrid)]

\* placeLetter that leaves the tile on the cell it came from
placeLetterLeavingOld(state, letterId, row, col) ==
    IF state.grid[row][col] # NullLetter THEN state
    ELSE IF ~\E i \in 1 .. Len(state.letters) : state.letters[i].id = letterId
    THEN state
    ELSE LET letterIndex == CHOOSE i \in 1 .. Len(state.letters) :
                               state.letters[i].id = letterId
             letter == state.letters[letterIndex]
             newLetter == [letter EXCEPT !.position = [row |-> row, col |-> col]]
             newGrid == [state.grid EXCEPT ![row][col] = newLetter]
             newLetters == [state.letters EXCEPT ![letterIndex] = newLetter]
             words == findAllWords(newGrid)
         IN [letters |-> newLetters, grid |-> newGrid, words |-> words,
             isWon |-> checkWinCondition(newLetters, words, newGrid)]

placeLetter(state, letterId, row, col) ==
    IF state.grid[row][col] # NullLetter THEN state
    ELSE IF ~\E i \in 1 .. Len(state.letters) : state.letters[i].id = letterId
    THEN state
    ELSE LET letterIndex == CHOOSE i \in 1 .. Len(state.letters) :
                               /\ state.letters[i].id = letterId
                               /\ \A j \in 1 .. (i - 1) :
                                     state.letters[j].id # letterId
             letter == state.letters[letterIndex]
             newLetter == [letter EXCEPT !.position = [row |-> row, col |-> col]]
             cleared == IF letter.position # NullPos
                        THEN [state.grid EXCEPT
                                 ![letter.position.row][letter.position.col] =
                                     NullLetter]
                        ELSE state.grid
             newGrid == [cleared EXCEPT ![row][col] = newLetter]
             newLetters == [state.letters EXCEPT ![letterIndex] = newLetter]
             words == findAllWords(newGrid)
         IN [letters |-> newLetters, grid |-> newGrid, words |-> words,
             isWon |-> checkWinCondition(newLetters, words, newGrid)]

\* removeLetter that carries isWon over from the state it is given
removeLetterKeepingWon(state, letterId) ==
    IF ~\E i \in 1 .. Len(state.letters) : state.letters[i].id = letterId
    THEN state
    ELSE LET letterIndex == CHOOSE i \in 1 .. Len(state.letters) :
                               state.letters[i].id = letterId
             letter == state.letters[letterIndex]
         IN IF letter.position = NullPos THEN state
            ELSE LET newGrid == [state.grid EXCEPT
                                    ![letter.position.row][letter.position.col] =
                                        NullLetter]
                     newLetter == [letter EXCEPT !.position = NullPos]
                 IN [letters |-> [state.letters EXCEPT ![letterIndex] = newLetter],
                     grid |-> newGrid,
                     words |-> findAllWords(newGrid),
                     isWon |-> state.isWon]

removeLetter(state, letterId) ==
    IF ~\E i \in 1 .. Len(state.letters) : state.letters[i].id = letterId
    THEN state
    ELSE LET letterIndex == CHOOSE i \in 1 .. Len(state.letters) :
                               /\ state.letters[i].id = letterId
                               /\ \A j \in 1 .. (i - 1) :
                                     state.letters[j].id # letterId
             letter == state.letters[letterIndex]
         IN IF letter.position = NullPos THEN state
            ELSE LET newGrid == [state.grid EXCEPT
                                    ![letter.position.row][letter.position.col] =
                                        NullLetter]
                     newLetter == [letter EXCEPT !.position = NullPos]
                 IN [letters |-> [state.letters EXCEPT ![letterIndex] = newLetter],
                     grid |-> newGrid,
                     words |-> findAllWords(newGrid),
                     isWon |-> FALSE]

-----------------------------------------------------------------------------
\* solver-v4.ts: word combinations first, then a template placement

canFormWordFromCounts(word, available) ==
    \A i \in 1 .. Len(word) : ~(available[word[i]] < CountIn(word, word[i]))

RECURSIVE subtractWord(_, _)
subtractWord(counts, word) ==
    IF word = <<>> THEN counts
    ELSE LET c == Head(word)
             count == counts[c]
         IN subtractWord([counts EXCEPT ![c] = IF count <= 1 THEN 0 ELSE count - 1],
                         Tail(word))

addLetter(counts, char) == [counts EXCEPT ![char] = counts[char] + 1]

countLetters(counts) ==
    LET RECURSIVE Sum(_)
        Sum(S) == IF S = {} THEN 0
                  ELSE LET c == CHOOSE c \in S : TRUE
                       IN counts[c] + Sum(S \ {c})
    IN Sum({c \in Alphabet : counts[c] > 0})

\* the shared letters, i1 in the outer loop and i2 in the inner one (0-based)
findCrossings(word1, word2) ==
    SelectSeq([k \in 1 .. Len(word1) * Len(word2) |->
                  [i1 |-> (k - 1) \div Len(word2),
                   i2 |-> (k - 1) % Len(word2),
                   char |-> word1[((k - 1) \div Len(word2)) + 1]]],
              LAMBDA x : word1[x.i1 + 1] = word2[x.i2 + 1])

\* getWordAt: back to the start of the run, then forward to its end
RECURSIVE RunStart(_, _, _, _)
RunStart(grid, r, c, dir) ==
    IF dir = "h"
    THEN IF c > 0 /\ grid[r][c - 1] # Null THEN RunStart(grid, r, c - 1, dir) ELSE c
    ELSE IF r > 0 /\ grid[r - 1][c] # Null THEN RunStart(grid, r - 1, c, dir) ELSE r

RECURSIVE RunFrom(_, _, _, _)
RunFrom(grid, r, c, dir) ==
    IF r < GRID_SIZE /\ c < GRID_SIZE /\ grid[r][c] # Null
    THEN <<grid[r][c]>> \o (IF dir = "h" THEN RunFrom(grid, r, c + 1, dir)
                                        ELSE RunFrom(grid, r + 1, c, dir))
    ELSE <<>>

getWordAt(grid, row, col, dir) ==
    IF dir = "h" THEN RunFrom(grid, row, RunStart(grid, row, col, dir), dir)
                 ELSE RunFrom(grid, RunStart(grid, row, col, dir), col, dir)

placeWord(grid, word, row, col, dir) == WriteWord(grid, word, row, col, dir)

checkPerpendiculars(grid, word, row, col, dir) ==
    LET R(i) == IF dir = "v" THEN row + i ELSE row
        C(i) == IF dir = "h" THEN col + i ELSE col
        fits == \A i \in 0 .. (Len(word) - 1) :
                   /\ ~(R(i) >= GRID_SIZE \/ C(i) >= GRID_SIZE)
                   /\ ~(grid[R(i)][C(i)] # Null /\ grid[R(i)][C(i)] # word[i + 1])
    IN /\ fits
       /\ ~ExtendsRun(grid, word, row, col, dir)
       /\ LET newGrid == placeWord(grid, word, row, col, dir)
              perpDir == IF dir = "h" THEN "v" ELSE "h"
          IN \A i \in 0 .. (Len(word) - 1) :
                grid[R(i)][C(i)] # Null \/
                   LET perpWord == getWordAt(newGrid, R(i), C(i), perpDir)
                   IN /\ Len(perpWord) # 2
                      /\ ~(Len(perpWord) >= 3 /\ ~isValidWord(perpWord))

Max(a, b) == IF a > b THEN a ELSE b
Min(a, b) == IF a < b THEN a ELSE b

\* the first element of a sequence of options that holds a value
RECURSIVE FirstSome(_, _)
FirstSome(options, k) ==
    IF k > Len(options) THEN <<>>
    ELSE IF options[k] # <<>> THEN options[k]
    ELSE FirstSome(options, k + 1)

\* the (baseRow, baseCol) pairs of the two template loops, in order
BasePositions(word1, lastRow) ==
    LET cols == Max(1, GRID_SIZE - Len(word1) - 1)
    IN [k \in 1 .. lastRow * cols |->
           [baseRow |-> 1 + ((k - 1) \div cols),
            baseCol |-> 1 + ((k - 1) % cols)]]

\* one iteration of the loops of tryPlaceTwoWords: <<>> (continue) or <<grid>>
TwoWordsAt(word1, word2, crossing, baseRow, baseCol) ==
    LET crossCol == baseCol + crossing.i1
        word2StartRow == baseRow - crossing.i2
    IN IF word2StartRow < 0 \/ word2StartRow + Len(word2) > GRID_SIZE THEN <<>>
       ELSE IF crossCol >= GRID_SIZE \/ baseCol + Len(word1) > GRID_SIZE THEN <<>>
       ELSE IF ~checkPerpendiculars(createEmptyGrid, word1, baseRow, baseCol, "h")
       THEN <<>>
       ELSE LET grid1 == placeWord(createEmptyGrid, word1, baseRow, baseCol, "h")
            IN IF ~checkPerpendiculars(grid1, word2, word2StartRow, crossCol, "v")
               THEN <<>>
               ELSE <<placeWord(grid1, word2, word2StartRow, crossCol, "v")>>

tryPlaceTwoWords(word1, word2, crossing) ==
    LET at == BasePositions(word1, 4)
    IN FirstSome([k \in 1 .. Len(at) |->
                     TwoWordsAt(word1, word2, crossing,
                                at[k].baseRow, at[k].baseCol)], 1)

\* one iteration of the loops of tryPlaceThreeWords
ThreeWordsAt(word1, word2, word3, crossing1, crossing2, baseRow, baseCol) ==
    LET two == TwoWordsAt(word1, word2, crossing1, baseRow, baseCol)
        crossCol == baseCol + crossing1.i1
        word2StartRow == baseRow - crossing1.i2
    IN IF two = <<>> THEN <<>>
       ELSE IF crossing2.wordA = "w1"
       THEN LET w3CrossCol == baseCol + crossing2.iA
                w3StartRow == baseRow - crossing2.iB
            IN IF w3StartRow < 0 \/ w3StartRow + Len(word3) > GRID_SIZE THEN <<>>
               ELSE IF w3CrossCol < 0 \/ w3CrossCol >= GRID_SIZE THEN <<>>
               ELSE IF ~checkPerpendiculars(two[1], word3, w3StartRow, w3CrossCol, "v")
               THEN <<>>
               ELSE <<placeWord(two[1], word3, w3StartRow, w3CrossCol, "v")>>
       ELSE LET w3CrossRow == word2StartRow + crossing2.iA
                w3StartCol == crossCol - crossing2.iB
            IN IF w3StartCol < 0 \/ w3StartCol + Len(word3) > GRID_SIZE THEN <<>>
               ELSE IF w3CrossRow < 0 \/ w3CrossRow >= GRID_SIZE THEN <<>>
               ELSE IF ~checkPerpendiculars(two[1], word3, w3CrossRow, w3StartCol, "h")
               THEN <<>>
               ELSE <<placeWord(two[1], word3, w3CrossRow, w3StartCol, "h")>>

tryPlaceThreeWords(word1, word2, word3, crossing1, crossing2) ==
    LET at == BasePositions(word1, 3)
    IN FirstSome([k \in 1 .. Len(at) |->
                     ThreeWordsAt(word1, word2, word3, crossing1, crossing2,
                                  at[k].baseRow, at[k].baseCol)], 1)

countCells(grid) ==
    Cardinality({rc \in Cells \X Cells : grid[rc[1]][rc[2]] # Null})

-----------------------------------------------------------------------------
\* solve() of solver-v4.ts. A loop result is [grid, attempts, combosChecked]
\* with grid <<>> (none) or <<grid>>.

v4AllWords(letterCounts) ==
    Sort(SelectSeq(getWordsFromLetters(letterCounts),
                   LAMBDA w : Len(w) >= 3 /\ Len(w) <= 8),
         LAMBDA a, b : Len(b) - Len(a) < 0)

Found(grid, attempts, combosChecked) ==
    [grid |-> grid, attempts |-> attempts, combosChecked |-> combosChecked]

\* Strategy 1, the loop over the crossings of word1 and word2
RECURSIVE CrossingLoop(_, _, _, _, _, _)
CrossingLoop(word1, word2, crossings, k, afterWord1, attempts) ==
    IF k > Len(crossings) THEN Found(<<>>, attempts, 0)
    ELSE LET crossing == crossings[k]
             withShared == addLetter(afterWord1, crossing.char)
         IN IF ~canFormWordFromCounts(word2, withShared)
            THEN CrossingLoop(word1, word2, crossings, k + 1, afterWord1, attempts)
            ELSE IF countLetters(subtractWord(withShared, word2)) # 0
            THEN CrossingLoop(word1, word2, crossings, k + 1, afterWord1, attempts)
            ELSE LET grid == tryPlaceTwoWords(word1, word2, crossing)
                 IN IF grid # <<>> THEN Found(grid, attempts + 1, 0)
                    ELSE LET gridRev ==
                                 tryPlaceTwoWords(word2, word1,
                                     [i1 |-> crossing.i2, i2 |-> crossing.i1])
                         IN IF gridRev # <<>> THEN Found(gridRev, attempts + 2, 0)
                            ELSE CrossingLoop(word1, word2, crossings, k + 1,
                                              afterWord1, attempts + 2)

\* Strategy 1, the loop over word2 for one word1
RECURSIVE Word2Loop(_, _, _, _, _, _, _)
Word2Loop(word1, words, j, afterWord1, neededLen, attempts, combosChecked) ==
    IF j > Len(words) THEN Found(<<>>, attempts, combosChecked)
    ELSE IF Len(words[j]) # neededLen
    THEN Word2Loop(word1, words, j + 1, afterWord1, neededLen, attempts,
                   combosChecked)
    ELSE LET r == CrossingLoop(word1, words[j], findCrossings(word1, words[j]),
                               1, afterWord1, attempts)
         IN IF r.grid # <<>> THEN Found(r.grid, r.attempts, combosChecked + 1)
            ELSE Word2Loop(word1, words, j + 1, afterWord1, neededLen,
                           r.attempts, combosChecked + 1)

\* Strategy 1, one iteration of the loop over word1
TwoWordIteration(word1, words, letterCounts, targetCount) ==
    LET neededLen == (targetCount + 1) - Len(word1)
    IN IF neededLen < 3 \/ neededLen > 8 THEN Found(<<>>, 0, 0)
       ELSE Word2Loop(word1, words, 1, subtractWord(letterCounts, word1),
                      neededLen, 0, 0)

\* Strategy 2, word3 crossing word1 ("w1") or word2 ("w2")
RECURSIVE Cross3Loop(_, _, _, _, _, _, _, _, _)
RECURSIVE Cross3Placed(_, _, _, _, _, _, _, _, _, _)
\* after tryPlaceThreeWords returned grid: return it, or go on with the loop
Cross3Placed(grid, word1, word2, word3, cross12, wordA, crossings, k, afterWord2, attempts) ==
    IF grid # <<>> THEN Found(grid, attempts + 1, 0)
    ELSE Cross3Loop(word1, word2, word3, cross12, wordA, crossings, k + 1,
                    afterWord2, attempts + 1)

Cross3Loop(word1, word2, word3, cross12, wordA, crossings, k, afterWord2, attempts) ==
    IF k > Len(crossings) THEN Found(<<>>, attempts, 0)
    ELSE IF ~canFormWordFromCounts(word3, addLetter(afterWord2, crossings[k].char))
    THEN Cross3Loop(word1, word2, word3, cross12, wordA, crossings, k + 1,
                    afterWord2, attempts)
    ELSE IF countLetters(subtractWord(addLetter(afterWord2, crossings[k].char),
                                      word3)) # 0
    THEN Cross3Loop(word1, word2, word3, cross12, wordA, crossings, k + 1,
                    afterWord2, attempts)
    ELSE Cross3Placed(tryPlaceThreeWords(word1, word2, word3, cross12,
                          [wordA |-> wordA, iA |-> crossings[k].i1,
                           iB |-> crossings[k].i2]),
                      word1, word2, word3, cross12, wordA, crossings, k,
                      afterWord2, attempts)

\* Strategy 2, the loop over word3
RECURSIVE Word3Loop(_, _, _, _, _, _, _, _, _)
\* word3 crossing word2, unless it crossing word1 gave a grid
Word3Crossing2(r1, word1, word2, word3, cross12, afterWord2) ==
    IF r1.grid # <<>> THEN r1
    ELSE Cross3Loop(word1, word2, word3, cross12, "w2",
                    Slice(findCrossings(word2, word3), 2), 1, afterWord2,
                    r1.attempts)

\* after both crossing loops of words[j]: return the grid, or the next word3
Word3Tried(r, word1, word2, cross12, words, j, afterWord2, remaining, combosChecked) ==
    IF r.grid # <<>> THEN Found(r.grid, r.attempts, combosChecked + 1)
    ELSE Word3Loop(word1, word2, cross12, words, j + 1, afterWord2, remaining,
                   r.attempts, combosChecked + 1)

Word3Loop(word1, word2, cross12, words, j, afterWord2, remaining, attempts, combosChecked) ==
    IF j > Len(words) THEN Found(<<>>, attempts, combosChecked)
    ELSE IF Len(words[j]) # remaining + 1
    THEN Word3Loop(word1, word2, cross12, words, j + 1, afterWord2, remaining,
                   attempts, combosChecked)
    ELSE Word3Tried(
             Word3Crossing2(
                 Cross3Loop(word1, word2, words[j], cross12, "w1",
                            Slice(findCrossings(word1, words[j]), 2), 1,
                            afterWord2, attempts),
                 word1, word2, words[j], cross12, afterWord2),
             word1, word2, cross12, words, j, afterWord2, remaining,
             combosChecked)

\* Strategy 2, the loop over the first three crossings of word1 and word2
RECURSIVE Cross12Loop(_, _, _, _, _, _, _, _)
\* after the loop over word3 for crossings12[k]: return the grid, or go on
Cross12Tried(r, word1, word2, crossings12, k, words, afterWord1) ==
    IF r.grid # <<>> THEN r
    ELSE Cross12Loop(word1, word2, crossings12, k + 1, words, afterWord1,
                     r.attempts, r.combosChecked)

\* word2 is formable from withShared1; afterWord2 is what it leaves
Cross12Formed(afterWord2, remaining, word1, word2, crossings12, k, words, afterWord1, attempts, combosChecked) ==
    IF remaining < 3 \/ remaining > 7
    THEN Cross12Loop(word1, word2, crossings12, k + 1, words, afterWord1,
                     attempts, combosChecked)
    ELSE Cross12Tried(Word3Loop(word1, word2, crossings12[k], words, 1,
                                afterWord2, remaining, attempts, combosChecked),
                      word1, word2, crossings12, k, words, afterWord1)

Cross12Loop(word1, word2, crossings12, k, words, afterWord1, attempts, combosChecked) ==
    IF k > Len(crossings12) THEN Found(<<>>, attempts, combosChecked)
    ELSE IF ~canFormWordFromCounts(word2, addLetter(afterWord1, crossings12[k].char))
    THEN Cross12Loop(word1, word2, crossings12, k + 1, words, afterWord1,
                     attempts, combosChecked)
    ELSE Cross12Formed(
             subtractWord(addLetter(afterWord1, crossings12[k].char), word2),
             countLetters(subtractWord(addLetter(afterWord1, crossings12[k].char),
                                       word2)),
             word1, word2, crossings12, k, words, afterWord1, attempts,
             combosChecked)

\* Strategy 2, the crossings and third words of one (word1, word2), counted
\* from zero
WordPair(word1, word2, words, letterCounts) ==
    Cross12Loop(word1, word2, Slice(findCrossings(word1, word2), 3), 1, words,
                subtractWord(letterCounts, word1), 0, 0)

IndexOf(list, word) == CHOOSE i \in 1 .. Len(list) : list[i] = word

\* Strategy 1, the loop over word1 in the shuffled order, up to the first
\* grid or, with stop > 0, up to the deadline passing before iteration stop;
\* table holds TwoWordIteration for every word of list
RECURSIVE TwoWord1Loop(_, _, _, _, _, _, _)
TwoWord1Loop(order, list, table, k, stop, attempts, combosChecked) ==
    IF k > Len(order) \/ k = stop THEN Found(<<>>, attempts, combosChecked)
    ELSE LET r == table[IndexOf(list, order[k])]
         IN IF r.grid # <<>>
            THEN Found(r.grid, attempts + r.attempts,
                       combosChecked + r.combosChecked)
            ELSE TwoWord1Loop(order, list, table, k + 1, stop,
                              attempts + r.attempts,
                              combosChecked + r.combosChecked)

\* Strategy 2, the loop over word2 for one word1; pairs holds WordPair for
\* every two words of list
RECURSIVE ThreeWord2Loop(_, _, _, _, _, _, _)
ThreeWord2Loop(word1, second, j, list, pairs, attempts, combosChecked) ==
    IF j > Len(second) THEN Found(<<>>, attempts, combosChecked)
    ELSE LET r == pairs[IndexOf(list, word1)][IndexOf(list, second[j])]
         IN IF r.grid # <<>>
            THEN Found(r.grid, attempts + r.attempts,
                       combosChecked + r.combosChecked)
            ELSE ThreeWord2Loop(word1, second, j + 1, list, pairs,
                                attempts + r.attempts,
                                combosChecked + r.combosChecked)

\* Strategy 2, the loop over word1, with stop as in Strategy 1
RECURSIVE ThreeWord1Loop(_, _, _, _, _, _, _, _)
ThreeWord1Loop(first, second, list, pairs, k, stop, attempts, combosChecked) ==
    IF k > Len(first) \/ k = stop THEN Found(<<>>, attempts, combosChecked)
    ELSE LET r == ThreeWord2Loop(first[k], second, 1, list, pairs, 0, 0)
         IN IF r.grid # <<>>
            THEN Found(r.grid, attempts + r.attempts,
                       combosChecked + r.combosChecked)
            ELSE ThreeWord1Loop(first, second, list, pairs, k + 1, stop,
                                attempts + r.attempts,
                                combosChecked + r.combosChecked)

\* the results of one loop body for every word of a list, and the result for
\* a word of that list
RECURSIVE ForEach(_, _, _)
ForEach(list, Body(_), k) ==
    IF k > Len(list) THEN <<>>
    ELSE <<Body(list[k])>> \o ForEach(list, Body, k + 1)

\* shuffle(arr): the arrangements Fisher-Yates can produce
shuffle(arr) ==
    {ForEach(p, LAMBDA i : arr[i], 1) : p \in Permutations(1 .. Len(arr))}

-----------------------------------------------------------------------------
\* Actions of solvePuzzle (solver.ts)

\* no call of solvePuzzleV4 has been made
NoBudget == [timeoutMs |-> 0, perLetterTimeout |-> 0, granted |-> <<>>]

\* no call is running
Idle ==
    /\ pc = "idle"
    /\ solver = Null
    /\ letters = <<>>
    /\ expired = FALSE
    /\ stack = <<>>
    /\ ret = NoRet
    /\ phase = 0
    /\ dropIdx = 0
    /\ solved = createEmptyGrid
    /\ result = NoResult
    /\ game = createInitialState(<<>>)
    /\ applied = 0
    /\ late = FALSE
    /\ stats = [attempts |-> 0, combosChecked |-> 0]
    /\ budget = NoBudget
    /\ draggingLetter = <<>>
    /\ placedOrder = <<>>

\* a call of the placement kernel on its own: the grid handed in, the
\* arguments, and what came back
NoProbe ==
    [call |-> "none", grid |-> createEmptyGrid, word |-> <<>>, row |-> 0,
     col |-> 0, direction |-> "h", availableLetters |-> EmptyCounts,
     valid |-> FALSE, emptied |-> FALSE, out |-> <<>>]

Init == Idle /\ probe = NoProbe /\ gameState = createInitialState(<<>>)

\* solvePuzzle(letters) up to the first call of solve()
solvePuzzle(n) ==
    /\ pc = "idle"
    /\ solver' = "solver"
    /\ letters' = Tiles(InputPool[n])
    /\ phase' = 1
    /\ stack' = <<Frame(createEmptyGrid, LetterCounts(letterChars)')>>
    /\ pc' = "search"
    /\ game' = createInitialState(InputPool[n])
    /\ gameState' = createInitialState(InputPool[n])
    /\ UNCHANGED <<expired, ret, dropIdx, solved, result, applied, late, stats,
                   probe, budget, draggingLetter, placedOrder>>

\* the clock passes the deadline
DeadlinePasses ==
    /\ pc \in {"search", "phase2"}
    /\ solver = "solver"
    /\ ~expired
    /\ expired' = TRUE
    /\ UNCHANGED <<pc, solver, letters, stack, ret, phase, dropIdx, solved,
                   result, game, applied, late, stats,
                   probe, budget,
                   gameState, draggingLetter, placedOrder>>

\* entry of solve(): deadline, success test, candidates of the frame
solveEnter ==
    /\ pc = "search"
    /\ stack # <<>>
    /\ Top.st = "call"
    /\ IF expired
       THEN /\ stack' = Pop
            /\ ret' = NoGrid
       ELSE IF MapSize(Top.availableLetters) = 0
       THEN /\ stack' = Pop
            /\ ret' = AGrid(Top.grid)
       ELSE /\ stack' = SetTop([Top EXCEPT
                           !.st = "loop",
                           !.branches = Branches(Top.grid, Top.availableLetters,
                                                 allWords, depth)])
            /\ ret' = NoRet
    /\ UNCHANGED <<pc, solver, letters, expired, phase, dropIdx, solved,
                   result, game, applied, late, stats,
                   probe, budget,
                   gameState, draggingLetter, placedOrder>>

\* the recursive call for the next placement of the frame
solveDescend ==
    /\ pc = "search"
    /\ stack # <<>>
    /\ Top.st = "loop"
    /\ ret = NoRet
    /\ Top.bi <= Len(Top.branches)
    /\ Len(stack) < MaxDepth
    /\ LET placement == Top.branches[Top.bi]
           call == applyPlacementCall(Top.grid, placement)
           subtracted == subtractLettersCall(Top.availableLetters,
                                             placement.newLettersUsed)
       IN stack' = Append(SetTop([Top EXCEPT
                                     !.grid = call.grid,
                                     !.availableLetters = subtracted.available]),
                          Frame(call.newGrid, subtracted.result))
    /\ UNCHANGED <<pc, solver, letters, expired, ret, phase, dropIdx, solved,
                   result, game, applied, late, stats,
                   probe, budget,
                   gameState, draggingLetter, placedOrder>>

\* the recursive call returned: propagate a grid, or go on with the loops
solveResume ==
    /\ pc = "search"
    /\ stack # <<>>
    /\ Top.st = "loop"
    /\ ret # NoRet
    /\ IF ret.kind = "grid"
       THEN /\ stack' = Pop
            /\ ret' = ret
       ELSE /\ stack' = SetTop([Top EXCEPT !.bi = Top.bi + 1])
            /\ ret' = NoRet
    /\ UNCHANGED <<pc, solver, letters, expired, phase, dropIdx, solved,
                   result, game, applied, late, stats,
                   probe, budget,
                   gameState, draggingLetter, placedOrder>>

\* both loops of the frame are over: return null
solveExhausted ==
    /\ pc = "search"
    /\ stack # <<>>
    /\ Top.st = "loop"
    /\ ret = NoRet
    /\ Top.bi > Len(Top.branches)
    /\ stack' = Pop
    /\ ret' = NoGrid
    /\ UNCHANGED <<pc, solver, letters, expired, phase, dropIdx, solved,
                   result, game, applied, late, stats,
                   probe, budget,
                   gameState, draggingLetter, placedOrder>>

\* Phase 1 is over
phaseOneReturns ==
    /\ pc = "search"
    /\ solver = "solver"
    /\ stack = <<>>
    /\ phase = 1
    /\ IF ret.kind = "grid"
       THEN LET placements == gridToPlacements(ret.grid, letters)
            IN /\ solved' = ret.grid
               /\ result' = [placements |-> placements,
                             success |-> (Len(placements) = 12),
                             removedLetter |-> Null, returned |-> TRUE]
               /\ pc' = "done"
               /\ UNCHANGED <<phase, dropIdx>>
       ELSE /\ phase' = 2
            /\ dropIdx' = 1
            /\ pc' = "phase2"
            /\ UNCHANGED <<solved, result>>
    /\ ret' = NoRet
    /\ UNCHANGED <<solver, letters, expired, stack, game, applied, late, stats,
                   probe, budget,
                   gameState, draggingLetter, placedOrder>>

\* head of the Phase 2 loop: leave it, or search without one letterToRemove
phaseTwoNext ==
    /\ pc = "phase2"
    /\ solver = "solver"
    /\ IF dropIdx > Len(uniqueLetters) \/ expired
       THEN /\ result' = [placements |-> <<>>, success |-> FALSE,
                          removedLetter |-> Null, returned |-> TRUE]
            /\ pc' = "done"
            /\ UNCHANGED stack
       ELSE /\ stack' = <<Frame(createEmptyGrid, reducedCounts)>>
            /\ pc' = "search"
            /\ UNCHANGED result
    /\ UNCHANGED <<solver, letters, expired, ret, phase, dropIdx, solved,
                   game, applied, late, stats,
                   probe, budget,
                   gameState, draggingLetter, placedOrder>>

\* one Phase 2 search is over
phaseTwoReturns ==
    /\ pc = "search"
    /\ solver = "solver"
    /\ stack = <<>>
    /\ phase = 2
    /\ IF ret.kind = "grid"
       THEN LET placements == gridToPlacements(ret.grid, letters)
            IN /\ solved' = ret.grid
               /\ result' = [placements |-> placements,
                             success |-> (Len(placements) = 11),
                             removedLetter |-> toUpperCase(letterToRemove),
                             returned |-> TRUE]
               /\ pc' = "done"
               /\ UNCHANGED dropIdx
       ELSE /\ dropIdx' = dropIdx + 1
            /\ pc' = "phase2"
            /\ UNCHANGED <<solved, result>>
    /\ ret' = NoRet
    /\ UNCHANGED <<solver, letters, expired, stack, phase, game, applied, late, stats,
                   probe, budget,
                   gameState, draggingLetter, placedOrder>>

-----------------------------------------------------------------------------
\* Actions of solvePuzzleV4 (solver-v4.ts)

difficulties(c) ==
    CASE c = "j" -> 100 [] c = "x" -> 95 [] c = "z" -> 90 [] c = "q" -> 100
      [] c = "k" -> 75 [] c = "v" -> 60 [] c = "w" -> 50 [] c = "y" -> 45
      [] c = "f" -> 40 [] c = "b" -> 35 [] OTHER -> 0

\* uniqueLetters after the sort by difficulty, cut to the first 6
v4Sorted(chars) ==
    LET unique == Unique(chars)
    IN Slice(Sort([i \in 1 .. Len(unique) |-> unique[i][2]],
                  LAMBDA a, b : difficulties(b) - difficulties(a) < 0), 6)

v4Removals == v4Sorted(letterChars)

toRemove == v4Removals[dropIdx]

\* letterCounts (round 0, Phase 1) or reduced (round d, without the d-th letter)
v4CountsOf(chars, d) ==
    LET letterCounts == LetterCounts(chars)
        removed == v4Sorted(chars)[d]
    IN IF d = 0 THEN letterCounts
       ELSE [letterCounts EXCEPT ![removed] =
                IF letterCounts[removed] <= 1 THEN 0
                ELSE letterCounts[removed] - 1]

gridToPlacementsV4(grid, tiles) ==
    ReifyFrom(grid, tiles, FilledCells(grid), 1, {})

AddStats(r) ==
    [attempts |-> stats.attempts + r.attempts,
     combosChecked |-> stats.combosChecked + r.combosChecked]

\* the values of timeoutMs the calls are made with
Timeouts == {0, 1000, 15000}

\* Math.floor(timeoutMs * 0.7), the timeout of Phase 1
phaseOneTimeout(timeoutMs) == (timeoutMs * 7) \div 10

\* perLetterTimeout when Date.now() - startTime is elapsed
perLetterTimeout(timeoutMs, elapsed, unique) ==
    LET remainingTime == Max(2000, timeoutMs - elapsed)
    IN remainingTime \div Min(Len(unique), 6)

\* Date.now() - startTime after Phase 1: the values that separate the cases
\* of the code, in line with what the clock has already been seen to pass
ElapsedAfterPhaseOne ==
    {e \in {0, phaseOneTimeout(budget.timeoutMs),
            phaseOneTimeout(budget.timeoutMs) + 1,
            budget.timeoutMs, budget.timeoutMs + 1} :
        /\ late <=> (e > budget.timeoutMs - 500)
        /\ expired => (e > phaseOneTimeout(budget.timeoutMs))}

\* solvePuzzleV4(letters, timeoutMs) up to the first call of solve()
solvePuzzleV4(n) ==
    /\ pc = "idle"
    /\ solver' = "v4"
    /\ letters' = Tiles(InputPool[n])
    /\ phase' = 1
    /\ pc' = "v4two"
    /\ \E timeoutMs \in Timeouts :
          /\ budget' = [timeoutMs |-> timeoutMs, perLetterTimeout |-> 0,
                        granted |-> <<phaseOneTimeout(timeoutMs)>>]
          /\ late' = (0 > timeoutMs - 500)
    /\ UNCHANGED <<expired, stack, ret, dropIdx, solved, result, game, applied,
                   stats, probe,
                   gameState, draggingLetter, placedOrder>>

\* the clock passes timeoutMs - 500
v4RunsLate ==
    /\ solver = "v4"
    /\ pc \in {"v4two", "v4three", "v4ret", "v4phase2"}
    /\ ~late
    /\ late' = TRUE
    /\ UNCHANGED <<pc, solver, letters, expired, stack, ret, phase, dropIdx,
                   solved, result, game, applied, stats, probe, budget,
                   gameState, draggingLetter, placedOrder>>

v4LongList(words) == SelectSeq(words, LAMBDA w : Len(w) >= 5) \o Slice(words, 100)

v4MediumList(words) ==
    SelectSeq(words, LAMBDA w : Len(w) >= 4 /\ Len(w) <= 6) \o Slice(words, 80)

\* solve() is a function of its letter counts and target count up to shuffle()
\* and the clock: its word lists and the bodies of its loops over word1, for
\* the tiles chars in round d (0: Phase 1, d: Phase 2 without the d-th letter)
v4Round(chars, d) ==
    LET lower == [i \in 1 .. Len(chars) |-> toLowerCase(chars[i])]
        counts == v4CountsOf(lower, d)
        words == v4AllWords(counts)
        target == IF d = 0 THEN 12 ELSE 11
    IN IF d > Len(v4Sorted(lower))
       THEN [words |-> <<>>, two |-> <<>>, pairs |-> <<>>]
       ELSE [words |-> words,
             two |-> ForEach(v4LongList(words),
                        LAMBDA w : TwoWordIteration(w, words, counts, target), 1),
             pairs |-> ForEach(v4MediumList(words),
                        LAMBDA w1 : ForEach(v4MediumList(words),
                            LAMBDA w2 : WordPair(w1, w2, words, counts), 1), 1)]

v4Rounds ==
    ForEach(InputPool,
            LAMBDA chars : ForEach(<<0, 1, 2, 3, 4, 5, 6>>,
                                   LAMBDA d : v4Round(chars, d), 1), 1)

\* the round the running call of solvePuzzleV4 is in
v4Now ==
    v4Rounds[CHOOSE n \in 1 .. Len(InputPool) : Tiles(InputPool[n]) = letters]
            [IF phase = 1 THEN 1 ELSE dropIdx + 1]

\* solve(): the word list and Strategy 1 (2-word combinations). stop = 0: the
\* deadline does not pass in the loop; stop = k: it passes before iteration k.
v4TwoWords ==
    /\ pc = "v4two"
    /\ \E words \in {v4Now.words} :
       \E list \in {v4LongList(words)} :
       \E table \in {v4Now.two} :
          IF Len(words) = 0
          THEN /\ ret' = NoGrid
               /\ pc' = "v4ret"
               /\ UNCHANGED <<expired, stats>>
          ELSE \E wordsToTry \in shuffle(list) :
               \E stop \in 0 .. (Len(list) + 1) :
               \E r \in {TwoWord1Loop(wordsToTry, list, table, 1, stop, 0, 0)} :
                  /\ stats' = AddStats(r)
                  /\ IF r.grid # <<>>
                     THEN /\ stop = 0
                          /\ ret' = AGrid(r.grid[1])
                          /\ pc' = "v4ret"
                          /\ expired' = FALSE
                     ELSE /\ ret' = NoRet
                          /\ pc' = "v4three"
                          /\ expired' = (stop # 0)
    /\ UNCHANGED <<solver, letters, stack, phase, dropIdx, solved, result, game,
                   applied, late, probe, budget,
                   gameState, draggingLetter, placedOrder>>

\* solve(): Strategy 2 (3-word combinations) and the return
v4ThreeWords ==
    /\ pc = "v4three"
    /\ \E words \in {v4Now.words} :
       \E list \in {v4MediumList(words)} :
       \E pairs \in {v4Now.pairs} :
          IF expired
          THEN /\ ret' = NoGrid
               /\ UNCHANGED <<expired, stats>>
          ELSE \E words3Try \in shuffle(list) :
               \E stop \in 0 .. Len(list) :
               \E r \in {ThreeWord1Loop(Slice(words3Try, 50),
                                         Slice(words3Try, 60), list, pairs, 1,
                                         stop, 0, 0)} :
                  /\ stats' = AddStats(r)
                  /\ IF r.grid # <<>>
                     THEN /\ stop = 0
                          /\ ret' = AGrid(r.grid[1])
                          /\ expired' = FALSE
                     ELSE /\ ret' = NoGrid
                          /\ expired' = (stop # 0)
    /\ pc' = "v4ret"
    /\ UNCHANGED <<solver, letters, stack, phase, dropIdx, solved, result, game,
                   applied, late, probe, budget,
                   gameState, draggingLetter, placedOrder>>

\* Phase 1 is over
v4PhaseOneReturns ==
    /\ pc = "v4ret"
    /\ phase = 1
    /\ IF ret.kind = "grid" /\ countCells(ret.grid) = 12
       THEN /\ solved' = ret.grid
            /\ result' = [placements |-> gridToPlacementsV4(ret.grid, letters),
                          success |-> TRUE, removedLetter |-> Null,
                          returned |-> TRUE]
            /\ pc' = "done"
            /\ UNCHANGED <<phase, dropIdx, budget>>
       ELSE /\ phase' = 2
            /\ dropIdx' = 1
            /\ pc' = "v4phase2"
            /\ \E elapsed \in ElapsedAfterPhaseOne :
                  budget' = [budget EXCEPT !.perLetterTimeout =
                                perLetterTimeout(budget.timeoutMs, elapsed,
                                                 uniqueLetters)]
            /\ UNCHANGED <<solved, result>>
    /\ ret' = NoRet
    /\ UNCHANGED <<solver, letters, expired, stack, game, applied, late, stats,
                   probe,
                   gameState, draggingLetter, placedOrder>>

\* head of the Phase 2 loop
v4PhaseTwoNext ==
    /\ pc = "v4phase2"
    /\ IF dropIdx > Len(v4Removals) \/ late
       THEN /\ result' = [placements |-> <<>>, success |-> FALSE,
                          removedLetter |-> Null, returned |-> TRUE]
            /\ pc' = "done"
            /\ UNCHANGED <<expired, budget>>
       ELSE /\ pc' = "v4two"
            /\ expired' = FALSE
            /\ budget' = [budget EXCEPT !.granted =
                              Append(@, budget.perLetterTimeout)]
            /\ UNCHANGED result
    /\ UNCHANGED <<solver, letters, stack, ret, phase, dropIdx, solved, game,
                   applied, late, stats, probe,
                   gameState, draggingLetter, placedOrder>>

\* one Phase 2 search is over
v4PhaseTwoReturns ==
    /\ pc = "v4ret"
    /\ phase = 2
    /\ IF ret.kind = "grid" /\ countCells(ret.grid) = 11
       THEN LET remainingLetters ==
                    SelectSeq(letters, LAMBDA l : toLowerCase(l.char) # toRemove)
            IN /\ solved' = ret.grid
               /\ result' = [placements |->
                                 gridToPlacementsV4(ret.grid, remainingLetters),
                             success |-> TRUE,
                             removedLetter |-> toUpperCase(toRemove),
                             returned |-> TRUE]
               /\ pc' = "done"
               /\ UNCHANGED dropIdx
       ELSE /\ dropIdx' = dropIdx + 1
            /\ pc' = "v4phase2"
            /\ UNCHANGED <<solved, result>>
    /\ ret' = NoRet
    /\ UNCHANGED <<solver, letters, expired, stack, phase, game, applied, late,
                   stats, probe, budget,
                   gameState, draggingLetter, placedOrder>>

-----------------------------------------------------------------------------
\* handleSolve (Game.tsx): the placements of a successful solvePuzzle are
\* applied to the cleared game, one placeLetter per step

handleSolveApply ==
    /\ pc = "done"
    /\ solver = "solver"
    /\ result.success
    /\ applied < Len(result.placements)
    /\ LET placement == result.placements[applied + 1]
       IN game' = placeLetter(game, placement.letterId, placement.row,
                              placement.col)
    /\ applied' = applied + 1
    /\ gameState' = game'
    /\ UNCHANGED <<pc, solver, letters, expired, stack, ret, phase, dropIdx,
                   solved, result, late, stats, probe, budget, draggingLetter,
                   placedOrder>>

\* isSolving: set at the click on Solve, reset when solvePuzzle has failed
\* or the last placement has been applied
isSolving ==
    /\ solver = "solver"
    /\ ~(pc = "done" /\ (~result.success \/ applied = Len(result.placements)))

\* handleSolve is suspended at the timeout before a placement: the browser
\* handles the events of the player
Awaiting ==
    /\ pc = "done"
    /\ solver = "solver"
    /\ result.success
    /\ applied < Len(result.placements)

\* the tiles the player drags and the cells the player drops them on while
\* the solution is shown
DragTiles == {0, Len(letters) - 1}
DropCells == {<<0, 0>>, <<GRID_SIZE - 1, GRID_SIZE - 1>>}

\* handleDragStart(e, letter)
handleDragStart ==
    /\ Awaiting
    /\ \E id \in DragTiles :
          /\ draggingLetter # <<id>>
          /\ draggingLetter' = <<id>>
    /\ UNCHANGED <<pc, solver, letters, expired, stack, ret, phase, dropIdx,
                   solved, result, game, applied, late, stats, budget, probe,
                   gameState, placedOrder>>

\* handleDrop(row, col)
handleDrop ==
    /\ Awaiting
    /\ draggingLetter # <<>>
    /\ \E cell \in DropCells :
          gameState' = placeLetter(gameState, draggingLetter[1], cell[1],
                                   cell[2])
    /\ draggingLetter' = <<>>
    /\ UNCHANGED <<pc, solver, letters, expired, stack, ret, phase, dropIdx,
                   solved, result, game, applied, late, stats, budget, probe,
                   placedOrder>>

Next ==
    \/ \E n \in 1 .. NumInputs : solvePuzzle(n)
    \/ DeadlinePasses
    \/ solveEnter
    \/ solveDescend
    \/ solveResume
    \/ solveExhausted
    \/ phaseOneReturns
    \/ phaseTwoNext
    \/ phaseTwoReturns
    \/ \E n \in 1 .. NumInputs : solvePuzzleV4(n)
    \/ v4RunsLate
    \/ v4TwoWords
    \/ v4ThreeWords
    \/ v4PhaseOneReturns
    \/ v4PhaseTwoNext
    \/ v4PhaseTwoReturns
    \/ handleSolveApply
    \/ handleDragStart
    \/ handleDrop

Spec == Init /\ [][Next]_vars

-----------------------------------------------------------------------------
\* The game on its own (gameState.ts and the Backspace key of Game.tsx): one
\* roll, calls of placeLetter, removeLetter and shuffleUnplacedLetters

\* shuffleUnplacedLetters(state): the states the shuffle can produce; the
\* unplaced tiles take the shuffled chars from the end of the list
shuffleUnplacedLetters(state) ==
    LET unplaced == SelectSeq(state.letters, LAMBDA l : l.position = NullPos)
        chars == [k \in 1 .. Len(unplaced) |-> unplaced[k].char]
        rank(i) == Cardinality({j \in 1 .. i :
                                   state.letters[j].position = NullPos})
    IN {[state EXCEPT !.letters =
            [i \in 1 .. Len(state.letters) |->
                IF state.letters[i].position = NullPos
                THEN [state.letters[i] EXCEPT
                         !.char = shuffled[Len(shuffled) - rank(i) + 1]]
                ELSE state.letters[i]]] : shuffled \in shuffle(chars)}

\* the roll the game is played with
GameRoll == InputPool[1]

\* the tiles the player moves about: the last NumLoose tiles of the roll
NumLoose == 2
LooseTiles == {id \in 0 .. (Len(GameRoll) - 1) : id >= Len(GameRoll) - NumLoose}

\* the shuffle button is pressed with at most MaxShuffled tiles in the tray
MaxShuffled == 2

\* the cell of a tile in the grid PIRATES across, MOSTLY down
Home(id) ==
    IF id <= 6 THEN <<2, id + 1>>
    ELSE IF id <= 8 THEN <<id - 7, GRID_SIZE - 1>>
    ELSE <<id - 6, GRID_SIZE - 1>>

\* the cells the loose tiles are put on: their own cells, one below the
\* column, two away from everything, and the cell of the first tile
LooseCells ==
    {Home(id) : id \in LooseTiles}
        \cup {<<GRID_SIZE - 2, GRID_SIZE - 1>>, <<GRID_SIZE - 1, 0>>,
              <<GRID_SIZE - 1, 1>>, Home(0)}

IsPlaced(state, id) ==
    \E i \in 1 .. Len(state.letters) :
        state.letters[i].id = id /\ state.letters[i].position # NullPos

\* the fixed tiles are put on their cells in the order of their ids; the
\* loose tiles, and a tile id that is not in the game, come after them
PlaceInputs ==
    {<<id, Home(id)>> : id \in {i \in 0 .. (Len(GameRoll) - 1) :
        /\ i \notin LooseTiles
        /\ ~IsPlaced(gameState, i)
        /\ \A j \in 0 .. (i - 1) : IsPlaced(gameState, j)}}
    \cup {<<id, cell>> : id \in {i \in LooseTiles \cup {Len(GameRoll)} :
              \A j \in 0 .. (Len(GameRoll) - 1) :
                  j \in LooseTiles \/ IsPlaced(gameState, j)},
          cell \in LooseCells}

RemoveInputs == LooseTiles \cup {Len(GameRoll)}

\* the history of placements after placeLetter / removeLetter returned
Without(order, id) == SelectSeq(order, LAMBDA x : x # id)
OrderAfter(order, state, id) ==
    IF IsPlaced(state, id) THEN Append(Without(order, id), id)
    ELSE Without(order, id)

GameInit ==
    /\ Idle
    /\ probe = NoProbe
    /\ gameState = createInitialState(GameRoll)

\* a call placeLetter(gameState, letterId, row, col)
gamePlaceLetter ==
    /\ \E input \in PlaceInputs :
          /\ gameState' = placeLetter(gameState, input[1], input[2][1], input[2][2])
          /\ placedOrder' = IF gameState' = gameState THEN placedOrder
                            ELSE OrderAfter(placedOrder, gameState', input[1])
    /\ UNCHANGED <<pc, solver, letters, expired, stack, ret, phase, dropIdx,
                   solved, result, game, applied, late, stats, budget, probe,
                   draggingLetter>>

\* a call removeLetter(gameState, letterId)
gameRemoveLetter ==
    /\ \E id \in RemoveInputs :
          /\ gameState' = removeLetter(gameState, id)
          /\ placedOrder' = OrderAfter(placedOrder, gameState', id)
    /\ UNCHANGED <<pc, solver, letters, expired, stack, ret, phase, dropIdx,
                   solved, result, game, applied, late, stats, budget, probe,
                   draggingLetter>>

\* handleShuffle: a call shuffleUnplacedLetters(gameState)
gameShuffle ==
    /\ Cardinality({i \in 1 .. Len(gameState.letters) :
                       gameState.letters[i].position = NullPos}) <= MaxShuffled
    /\ gameState' \in shuffleUnplacedLetters(gameState)
    /\ UNCHANGED <<pc, solver, letters, expired, stack, ret, phase, dropIdx,
                   solved, result, game, applied, late, stats, budget, probe,
                   draggingLetter, placedOrder>>

\* handleKeyDown, Backspace: the last tile of letters that has a position is
\* removed
handleBackspace ==
    /\ ~gameState.isWon
    /\ LET placedLetters == SelectSeq(gameState.letters,
                                      LAMBDA l : l.position # NullPos)
       IN /\ Len(placedLetters) > 0
          /\ LET lastPlaced == placedLetters[Len(placedLetters)]
             IN /\ gameState' = removeLetter(gameState, lastPlaced.id)
                /\ placedOrder' = OrderAfter(placedOrder, gameState',
                                             lastPlaced.id)
    /\ UNCHANGED <<pc, solver, letters, expired, stack, ret, phase, dropIdx,
                   solved, result, game, applied, late, stats, budget, probe,
                   draggingLetter>>

GameNext == gamePlaceLetter \/ gameRemoveLetter \/ gameShuffle \/ handleBackspace

SpecGame == GameInit /\ [][GameNext]_vars

-----------------------------------------------------------------------------
\* Properties of the search of solver.ts

\* the cells a .. b of a line are a maximal run of filled cells
MaximalRun(line, a, b) ==
    /\ a <= b
    /\ \A i \in a .. b : line[i] # Null
    /\ a = 0 \/ line[a - 1] = Null
    /\ b = GRID_SIZE - 1 \/ line[b + 1] = Null

RunWord(line, a, b) == [i \in 1 .. (b - a + 1) |-> line[a + i - 1]]

LinesOf(grid) ==
    {RowOf(grid, r) : r \in Cells} \cup {ColOf(grid, c) : c \in Cells}

\* every maximal run has length 1 or is a dictionary word of length >= 3
RunsLegal(grid) ==
    \A line \in LinesOf(grid) : \A a \in Cells : \A b \in Cells :
        MaximalRun(line, a, b) =>
            \/ b = a
            \/ (b - a + 1 >= 3 /\ LowerWord(RunWord(line, a, b)) \in WordSet)

\* the grids the running search of solver.ts holds: one per frame, and the
\* grid a frame has returned
SearchGrids ==
    {stack[i].grid : i \in 1 .. Len(stack)}
        \cup (IF ret.kind = "grid" THEN {ret.grid} ELSE {})

\* C1: in every grid reached by solve() of solver.ts, and in the grid behind
\* every successful result of solvePuzzle, every maximal horizontal or vertical
\* run of filled cells has length 1 or is a dictionary word of length >= 3
C1_RunsAreWords ==
    solver = "solver" =>
        /\ \A g \in SearchGrids : RunsLegal(g)
        /\ result.success => RunsLegal(solved)

\* a frame two placements deep: two words cross on its grid
C1_Witness ==
    /\ solver = "solver"
    /\ Len(stack) >= 3
    /\ countCells(Top.grid) >= 8
    /\ RunsLegal(Top.grid)

-----------------------------------------------------------------------------
\* Properties of the results

PlacedIds == {result.placements[i].letterId : i \in 1 .. Len(result.placements)}

TileOf(letterId) == CHOOSE i \in 1 .. Len(letters) : letters[i].id = letterId

IsFilled(grid, r, c) == grid[r][c] # Null

\* the placements are a bijection between the filled cells of the solved grid
\* and a set of input tiles, each tile on a cell of its letter
PlacementsBijective ==
    LET placements == result.placements
    IN /\ \A i \in 1 .. Len(placements) : \A j \in 1 .. Len(placements) :
             i # j => /\ placements[i].letterId # placements[j].letterId
                      /\ <<placements[i].row, placements[i].col>>
                            # <<placements[j].row, placements[j].col>>
       /\ \A i \in 1 .. Len(placements) :
             /\ \E t \in 1 .. Len(letters) : letters[t].id = placements[i].letterId
             /\ IsFilled(solved, placements[i].row, placements[i].col)
             /\ toLowerCase(letters[TileOf(placements[i].letterId)].char)
                   = toLowerCase(solved[placements[i].row][placements[i].col])
       /\ \A r \in Cells : \A c \in Cells :
             IsFilled(solved, r, c) =>
                \E i \in 1 .. Len(placements) :
                   placements[i].row = r /\ placements[i].col = c

\* C2: a successful result of solvePuzzle or solvePuzzleV4 places pairwise
\* distinct tiles on pairwise distinct cells, each tile on its letter, covers
\* every filled cell of the solved grid, and has exactly 12 placements after
\* Phase 1 and exactly 11 after Phase 2
C2_SuccessIsBijection ==
    result.success =>
        /\ PlacementsBijective
        /\ Len(result.placements) = IF phase = 1 THEN 12 ELSE 11

\* the input tiles that no placement names
AbsentTiles == {i \in 1 .. Len(letters) : letters[i].id \notin PlacedIds}

\* C3: a successful result carries removedLetter exactly when Phase 2 produced
\* it; then exactly one input tile is absent from the placements, and
\* removedLetter is the letter of that tile
C3_RemovedLetterIsTheAbsentTile ==
    result.success =>
        /\ (result.removedLetter # Null) <=> (phase = 2)
        /\ phase = 2 =>
              /\ Cardinality(AbsentTiles) = 1
              /\ \A i \in AbsentTiles :
                    toLowerCase(letters[i].char) = toLowerCase(result.removedLetter)

\* C4: after a Phase 1 success of solvePuzzle, placing the returned tiles in
\* the returned order on the cleared game ends in a won game
C4_RoundTripWins ==
    (/\ solver = "solver"
     /\ result.success
     /\ result.removedLetter = Null
     /\ applied = Len(result.placements)) => game.isWon

C4_Witness ==
    /\ solver = "solver"
    /\ result.success
    /\ result.removedLetter = Null
    /\ applied = 12
    /\ game.isWon

\* C5: a result of solvePuzzle with success false has no placements
C5_FailureHasNoPlacements ==
    (solver = "solver" /\ result.returned /\ ~result.success)
        => result.placements = <<>>

\* C6: no result carries a placement list that leaves out a filled cell of
\* the grid that was reified
C6_NoCellOmitted ==
    result.returned =>
        \A r \in Cells : \A c \in Cells :
            IsFilled(solved, r, c) =>
               \E i \in 1 .. Len(result.placements) :
                  result.placements[i].row = r /\ result.placements[i].col = c

-----------------------------------------------------------------------------
\* Invariants of the search states of solver.ts

FilledSet(grid) == {rc \in Cells \X Cells : grid[rc[1]][rc[2]] # Null}

Adjacent(a, b) ==
    \/ (a[1] = b[1] /\ (a[2] = b[2] + 1 \/ b[2] = a[2] + 1))
    \/ (a[2] = b[2] /\ (a[1] = b[1] + 1 \/ b[1] = a[1] + 1))

\* the cells of a set reached from the cells in seen over shared edges
RECURSIVE Component(_, _)
Component(cells, seen) ==
    LET next == {b \in cells \ seen : \E a \in seen : Adjacent(a, b)}
    IN IF next = {} THEN seen ELSE Component(cells, seen \cup next)

FourConnected(grid) ==
    LET cells == FilledSet(grid)
    IN cells = {} \/ Component(cells, {CHOOSE a \in cells : TRUE}) = cells

\* the cells the placement a frame has descended into covers
CoveredCells(placement) ==
    {<<RowAt(placement.row, placement.direction, i),
       ColAt(placement.col, placement.direction, i)>> :
        i \in 0 .. (Len(placement.word) - 1)}

\* C7: in every search state of solve() the filled cells are one 4-connected
\* component; the first word goes on the empty grid and every later
\* placement covers a cell that was already filled
C7_GridIsConnected ==
    solver = "solver" =>
        /\ \A g \in SearchGrids : FourConnected(g)
        /\ \A i \in 1 .. (Len(stack) - 1) :
              LET placement == stack[i].branches[stack[i].bi]
              IN /\ stack[i + 1].grid = applyPlacement(stack[i].grid, placement)
                 /\ (i = 1) = (FilledSet(stack[i].grid) = {})
                 /\ i > 1 => CoveredCells(placement) \cap FilledSet(stack[i].grid) # {}

C7_Witness ==
    /\ solver = "solver"
    /\ Len(stack) >= 3
    /\ Cardinality(FilledSet(Top.grid)) >= 11
    /\ FourConnected(Top.grid)

\* C8: in every search state, for every letter, the cells holding it plus
\* its count in the remaining multiset are its count in the starting multiset
C8_LettersConserved ==
    solver = "solver" =>
        \A i \in 1 .. Len(stack) : \A c \in Alphabet :
            /\ Cardinality({rc \in FilledSet(stack[i].grid) :
                               stack[i].grid[rc[1]][rc[2]] = c})
                  + stack[i].availableLetters[c] = StartCounts[c]
            /\ MapSize(stack[i].availableLetters) = 0 =>
                  Cardinality(FilledSet(stack[i].grid)) = Len(letters) - (phase - 1)

C8_Witness ==
    /\ solver = "solver"
    /\ Len(stack) >= 3
    /\ MapSize(Top.availableLetters) = 0
    /\ Cardinality(FilledSet(Top.grid)) = 11

-----------------------------------------------------------------------------
\* The grid validator and the placement kernel on their own: calls of
\* validateAllGridWords and tryPlaceWord on grids filled near the lower
\* right corner, where runs end at the boundary

MaxFilled == 4

KernelLetters == {"a", "d"}

\* the last cells of the last row and of the last column
Window ==
    {<<GRID_SIZE - 1, c>> : c \in (GRID_SIZE - 4) .. (GRID_SIZE - 1)}
        \cup {<<r, GRID_SIZE - 1>> : r \in (GRID_SIZE - 4) .. (GRID_SIZE - 1)}

KernelGrids ==
    {[r \in Cells |-> [c \in Cells |->
         IF <<r, c>> \in Window THEN f[<<r, c>>] ELSE Null]] :
        f \in {h \in [Window -> KernelLetters \cup {Null}] :
                  Cardinality({w \in Window : h[w] # Null}) <= MaxFilled}}

\* the line (row of an "h", column of a "v" placement) and the start on it
ProbeLines == {-1, GRID_SIZE - 1, GRID_SIZE}
ProbeStarts == {-1, GRID_SIZE - 5, GRID_SIZE - 4, GRID_SIZE - 3, GRID_SIZE - 2}

\* the words tried, and the remaining multisets they are tried with: three,
\* two and one "d"
ProbeWords == {<<"d", "a", "d">>, <<"d", "a", "d", "d", "y">>}
ProbeCounts ==
    {LetterCounts(<<"d", "a", "d", "d", "y">>), LetterCounts(<<"d", "a", "d", "y">>),
     LetterCounts(<<"d", "a", "y">>)}

KernelInit ==
    /\ Idle
    /\ \E g \in KernelGrids : probe = [NoProbe EXCEPT !.grid = g]
    /\ gameState = createInitialState(<<>>)

probeValidate ==
    /\ probe.call = "none"
    /\ probe' = [probe EXCEPT !.call = "validateAllGridWords",
                              !.valid = validateAllGridWords(probe.grid)]
    /\ UNCHANGED <<pc, solver, letters, expired, stack, ret, phase, dropIdx,
                   solved, result, game, applied, late, stats, budget,
                   gameState, draggingLetter, placedOrder>>

probeTryPlaceWord ==
    /\ probe.call = "none"
    /\ \E line \in ProbeLines : \E start \in ProbeStarts :
       \E direction \in {"h", "v"} : \E word \in ProbeWords :
       \E availableLetters \in ProbeCounts :
          LET row == IF direction = "h" THEN line ELSE start
              col == IF direction = "h" THEN start ELSE line
          IN probe' = [probe EXCEPT
                          !.call = "tryPlaceWord", !.word = word, !.row = row,
                          !.col = col, !.direction = direction,
                          !.availableLetters = availableLetters,
                          !.out = tryPlaceWord(probe.grid, word, row, col,
                                               direction, availableLetters)]
    /\ UNCHANGED <<pc, solver, letters, expired, stack, ret, phase, dropIdx,
                   solved, result, game, applied, late, stats, budget,
                   gameState, draggingLetter, placedOrder>>

\* the grid with the cell (row, col) emptied
EmptyCell(grid, row, col) == [grid EXCEPT ![row][col] = Null]

\* validateAllGridWords on the grid and on the grid with one filled cell
\* emptied
probeEmptyCell ==
    /\ probe.call = "none"
    /\ \E row \in Cells : \E col \in Cells :
          /\ probe.grid[row][col] # Null
          /\ probe' = [probe EXCEPT
                          !.call = "emptyCell", !.row = row, !.col = col,
                          !.valid = validateAllGridWords(probe.grid),
                          !.emptied = validateAllGridWords(
                                          EmptyCell(probe.grid, row, col))]
    /\ UNCHANGED <<pc, solver, letters, expired, stack, ret, phase, dropIdx,
                   solved, result, game, applied, late, stats, budget,
                   gameState, draggingLetter, placedOrder>>

KernelNext == probeValidate \/ probeTryPlaceWord \/ probeEmptyCell

SpecKernel == KernelInit /\ [][KernelNext]_vars

\* C9: validateAllGridWords(grid) is true exactly when, in every row and
\* every column, each maximal run of filled cells has length 1 or is a
\* dictionary word of length >= 3; a run at the boundary ends there
C9_ValidatorIsRunRule ==
    probe.call = "validateAllGridWords" => (probe.valid <=> RunsLegal(probe.grid))

\* an accepted grid with a word that ends at the boundary
C9_Witness ==
    /\ probe.call = "validateAllGridWords"
    /\ probe.valid
    /\ \A c \in (GRID_SIZE - 3) .. (GRID_SIZE - 1) : probe.grid[GRID_SIZE - 1][c] # Null
    /\ probe.grid[GRID_SIZE - 4][GRID_SIZE - 1] # Null

OnGrid(rc) == rc[1] \in Cells /\ rc[2] \in Cells

\* C10: tryPlaceWord returns a placement only if every cell of the word is on
\* the grid and the cells right before its start and right after its end, in
\* its direction, are empty or off the grid
C10_PlacementFitsAndExtendsNothing ==
    (probe.call = "tryPlaceWord" /\ probe.out # <<>>) =>
        LET before == <<RowAt(probe.row, probe.direction, -1),
                        ColAt(probe.col, probe.direction, -1)>>
            after == <<RowAt(probe.row, probe.direction, Len(probe.word)),
                       ColAt(probe.col, probe.direction, Len(probe.word))>>
        IN /\ \A rc \in CoveredCells(probe) : OnGrid(rc)
           /\ ~OnGrid(before) \/ probe.grid[before[1]][before[2]] = Null
           /\ ~OnGrid(after) \/ probe.grid[after[1]][after[2]] = Null

\* a placement returned for a word with an empty cell right after its end
C10_Witness ==
    /\ probe.call = "tryPlaceWord"
    /\ probe.out # <<>>
    /\ probe.direction = "h"
    /\ probe.col = GRID_SIZE - 4
    /\ probe.grid[GRID_SIZE - 1][GRID_SIZE - 1] = Null
    /\ probe.grid[GRID_SIZE - 4][GRID_SIZE - 1] # Null

\* the indices (0-based) of the cells of the probed word that were empty
\* (filled = FALSE) or pre-filled (filled = TRUE), in word order
ProbeIndices(filled) ==
    SelectSeq([k \in 1 .. Len(probe.word) |-> k - 1],
              LAMBDA i : (probe.grid[RowAt(probe.row, probe.direction, i)]
                                    [ColAt(probe.col, probe.direction, i)] # Null)
                            = filled)

\* C11: for a placement returned by tryPlaceWord, newLettersUsed lists the
\* letters of the word at the covered cells that were empty, in word order,
\* every pre-filled covered cell holds the letter of the word,
\* intersectionCount is the number of pre-filled covered cells, and no letter
\* occurs in newLettersUsed more often than the remaining multiset holds it
C11_NewLettersAndBudget ==
    (probe.call = "tryPlaceWord" /\ probe.out # <<>>) =>
        LET empty == ProbeIndices(FALSE)
            filled == ProbeIndices(TRUE)
            p == probe.out[1]
        IN /\ p.newLettersUsed = [k \in 1 .. Len(empty) |-> probe.word[empty[k] + 1]]
           /\ \A k \in 1 .. Len(filled) :
                 probe.grid[RowAt(probe.row, probe.direction, filled[k])]
                           [ColAt(probe.col, probe.direction, filled[k])]
                    = probe.word[filled[k] + 1]
           /\ p.intersectionCount = Len(filled)
           /\ \A c \in Alphabet :
                 CountIn(p.newLettersUsed, c) <= probe.availableLetters[c]

\* daddy placed over one pre-filled d with two d left: the word needs the
\* letter three times, two of them from the multiset
C11_Witness ==
    /\ probe.call = "tryPlaceWord"
    /\ probe.out # <<>>
    /\ Len(probe.word) = 5
    /\ probe.availableLetters["d"] = 2
    /\ probe.out[1].intersectionCount = 1
    /\ CountIn(probe.out[1].newLettersUsed, "d") = 2

\* C12: on a grid that holds a letter, tryPlaceWord returns a placement only
\* if the word covers a pre-filled cell (intersectionCount >= 1)
C12_CrossingRequired ==
    (probe.call = "tryPlaceWord" /\ probe.out # <<>> /\ gridHasLetters(probe.grid)) =>
        /\ probe.out[1].intersectionCount >= 1
        /\ Len(ProbeIndices(TRUE)) >= 1

\* a placement returned on a grid with letters: it crosses two of them
C12_Witness ==
    /\ probe.call = "tryPlaceWord"
    /\ probe.out # <<>>
    /\ gridHasLetters(probe.grid)
    /\ probe.out[1].intersectionCount = 2

\* the seed: a placement returned on the empty grid, without any overlap
C12_SeedPlaced ==
    /\ probe.call = "tryPlaceWord"
    /\ probe.out # <<>>
    /\ ~gridHasLetters(probe.grid)
    /\ probe.out[1].intersectionCount = 0

PhaseTwoSearched ==
    /\ phase = 2
    /\ \/ dropIdx >= 2
       \/ pc \in {"search", "v4two", "v4three", "v4ret"}
       \/ result.removedLetter # Null

\* C14: a call that returns failure after Phase 1 ended without a grid,
\* exhausted or out of time, has started at least one Phase 2 search
C14_PhaseTwoAttempted ==
    (pc = "done" /\ ~result.success /\ phase = 2) => PhaseTwoSearched

\* the letters whose Phase 2 search has been run, in the order of the runs
TriedLetters ==
    IF solver = "solver"
    THEN [k \in 1 .. (dropIdx - 1) |-> uniqueLetters[k][2]]
    ELSE [k \in 1 .. (dropIdx - 1) |-> v4Removals[k]]

DistinctLetters == {letterChars[i] : i \in 1 .. Len(letterChars)}

\* C15: a call that leaves the Phase 2 loop without a grid while time is
\* left has run a search without each distinct letter of the input
C15_EveryLetterDropped ==
    (pc = "done" /\ phase = 2 /\ ~result.success /\ result.removedLetter = Null
        /\ ~expired /\ ~late /\ Len(letters) \in {11, 12}) =>
        {TriedLetters[k] : k \in 1 .. Len(TriedLetters)} = DistinctLetters

\* C15: the Phase 2 searches are run from the letter of highest rarity
\* weight to the letter of lowest
C15_RarestFirst ==
    (pc = "done" /\ phase = 2 /\ ~result.success /\ result.removedLetter = Null
        /\ ~expired /\ ~late /\ Len(letters) \in {11, 12}) =>
        \A j, k \in 1 .. Len(TriedLetters) :
           j < k => difficulties(TriedLetters[j]) >= difficulties(TriedLetters[k])

\* C15: both
C15_PhaseTwoOrder == C15_EveryLetterDropped /\ C15_RarestFirst

\* the grid solve() returns in round d (0: Phase 1, d: Phase 2 without the
\* d-th letter) on the tiles of the running call when both shuffles leave
\* their list as it is and no deadline passes: <<>> or <<grid>>
UnshuffledRound(d) ==
    LET now == v4Rounds[CHOOSE n \in 1 .. Len(InputPool) :
                           Tiles(InputPool[n]) = letters][d + 1]
        wordsToTry == v4LongList(now.words)
        words3Try == v4MediumList(now.words)
        two == TwoWord1Loop(wordsToTry, wordsToTry, now.two, 1, 0, 0, 0)
        three == ThreeWord1Loop(Slice(words3Try, 50), Slice(words3Try, 60),
                                words3Try, now.pairs, 1, 0, 0, 0)
    IN IF Len(now.words) = 0 THEN <<>>
       ELSE IF two.grid # <<>> THEN two.grid ELSE three.grid

\* the round the running call is in when it has returned successfully
RoundOfResult == IF phase = 1 THEN 0 ELSE dropIdx

\* the tiles gridToPlacements is given in round d
TilesOfRound(d) ==
    IF d = 0 THEN letters
    ELSE SelectSeq(letters, LAMBDA l : toLowerCase(l.char) # v4Removals[d])

\* a call of solvePuzzleV4 has returned a grid from the round in which the
\* call without shuffling and without a deadline passing finds its grid: the
\* earlier rounds failed in both calls, and no deadline passed in this round
SameRoundAsUnshuffled ==
    /\ pc = "done" /\ solver = "v4" /\ result.success
    /\ UnshuffledRound(RoundOfResult) # <<>>
    /\ \A d \in 0 .. (RoundOfResult - 1) : UnshuffledRound(d) = <<>>

\* C16: two calls of solvePuzzleV4 with the same tiles and budget return the
\* same placements: a call that succeeds in the round in which the call
\* without shuffling succeeds returns that call's placements
C16_SameResultEveryCall ==
    SameRoundAsUnshuffled =>
        result.placements =
            gridToPlacementsV4(UnshuffledRound(RoundOfResult)[1],
                               TilesOfRound(RoundOfResult))

\* C17: with timeoutMs = 0 solvePuzzleV4 returns success: false with
\* attempts = 0 and combosChecked = 0, and no Phase 2 search is started
C17_ZeroBudgetReturnsAtOnce ==
    (solver = "v4" /\ budget.timeoutMs = 0) =>
        /\ Len(budget.granted) <= 1
        /\ stats = [attempts |-> 0, combosChecked |-> 0]
        /\ pc = "done" => ~result.success

\* the part of C17 about Phase 2: with timeoutMs = 0 only Phase 1 is searched
C17_ZeroBudgetSkipsPhaseTwo ==
    (solver = "v4" /\ budget.timeoutMs = 0) => Len(budget.granted) <= 1

RECURSIVE SumOf(_, _)
SumOf(seq, k) == IF k > Len(seq) THEN 0 ELSE seq[k] + SumOf(seq, k + 1)

\* C18: for timeoutMs > 0 the timeouts handed to solve(), Phase 1 and every
\* Phase 2 search started, add up to at most timeoutMs
C18_GrantedWithinBudget ==
    (solver = "v4" /\ budget.timeoutMs > 0) =>
        SumOf(budget.granted, 1) <= budget.timeoutMs

\* the tile list and the time budget of the running call are the ones the
\* solver is specified for
WellFormedCall ==
    /\ Len(letters) \in {11, 12}
    /\ \A i \in 1 .. Len(letters) : toLowerCase(letters[i].char) \in Alphabet
    /\ solver = "v4" => budget.timeoutMs > 0

\* C19: a call with a tile list of a length other than 11 and 12, with a
\* character that is no letter, or with a time budget <= 0 is rejected before
\* any search frame is created: solve() is never entered
C19_MalformedCallRejected ==
    (solver # Null /\ ~WellFormedCall) =>
        /\ stack = <<>>
        /\ pc \notin {"search", "v4two", "v4three", "v4ret"}
        /\ pc = "done" => ~result.success

\* the characters on the board of the game, as the solver writes them
GameChars ==
    [r \in Cells |-> [c \in Cells |->
        IF game.grid[r][c] = NullLetter THEN Null
        ELSE toLowerCase(game.grid[r][c].char)]]

\* handleSolve is applying the placements of a successful solvePuzzle
Applying == pc = "done" /\ solver = "solver" /\ result.success

\* the placement handleSolve applies next names an empty cell and a tile that
\* lies on no cell
NextTargetFree ==
    (Applying /\ applied < Len(result.placements)) =>
        LET placement == result.placements[applied + 1]
        IN /\ game.grid[placement.row][placement.col] = NullLetter
           /\ \E i \in 1 .. Len(game.letters) :
                 /\ game.letters[i].id = placement.letterId
                 /\ game.letters[i].position = NullPos

\* C20 as stated: every placeLetter call of handleSolve targets an empty
\* cell and an unplaced tile, and the board after every prefix of the
\* placements passes validateAllGridWords
C20_EveryPrefixValid ==
    /\ NextTargetFree
    /\ Applying => validateAllGridWords(GameChars)

\* C20: every placeLetter call of handleSolve targets an empty cell and an
\* unplaced tile, and the board after the last placement passes
\* validateAllGridWords
C20_TargetsFreeAndBoardValid ==
    /\ NextTargetFree
    /\ (Applying /\ applied = Len(result.placements)) =>
           validateAllGridWords(GameChars)

\* all placements of a grid of two crossing words have been applied
C20_Witness ==
    /\ Applying
    /\ applied = Len(result.placements)
    /\ applied >= 11
    /\ validateAllGridWords(GameChars)

\* a prefix of the placements has left two letters of a word side by side
C20_PrefixInvalid ==
    /\ Applying
    /\ 0 < applied /\ applied < Len(result.placements)
    /\ ~validateAllGridWords(GameChars)

\* the runs that end or begin next to cell i of a line are legal
PiecesLegal(line, i) ==
    \A a \in Cells : \A b \in Cells :
        (MaximalRun(line, a, b) /\ (b = i - 1 \/ a = i + 1)) =>
            \/ b = a
            \/ (b - a + 1 >= 3 /\ LowerWord(RunWord(line, a, b)) \in WordSet)

\* C21 as stated: emptying one filled cell of a grid validateAllGridWords
\* accepts gives a grid it accepts
C21_EmptyingKeepsValid ==
    (probe.call = "emptyCell" /\ probe.valid) => probe.emptied

\* C21: emptying one filled cell of a grid validateAllGridWords accepts gives
\* a grid it accepts exactly when the pieces left of the runs through that
\* cell, in its row and in its column, have length 1 or are dictionary words
\* of length >= 3
C21_EmptyingKeepsValidIffPiecesLegal ==
    (probe.call = "emptyCell" /\ probe.valid) =>
        LET emptied == EmptyCell(probe.grid, probe.row, probe.col)
        IN probe.emptied <=>
              /\ PiecesLegal(RowOf(emptied, probe.row), probe.col)
              /\ PiecesLegal(ColOf(emptied, probe.col), probe.row)

\* the last letter of "dada" at the boundary is emptied and "dad" is left
C21_Witness ==
    /\ probe.call = "emptyCell"
    /\ probe.valid
    /\ probe.emptied
    /\ probe.row = GRID_SIZE - 1 /\ probe.col = GRID_SIZE - 1
    /\ \A c \in (GRID_SIZE - 4) .. (GRID_SIZE - 1) :
          probe.grid[GRID_SIZE - 1][c] # Null

\* a letter of an accepted word is emptied and a run of two is left
C21_PieceOfTwo ==
    /\ probe.call = "emptyCell"
    /\ probe.valid
    /\ ~probe.emptied

\* C22: after any sequence of placeLetter, removeLetter and
\* shuffleUnplacedLetters every tile id carries the char it was created with
C22_CharOfTileNeverChanges ==
    \A i \in 1 .. Len(gameState.letters) :
        /\ gameState.letters[i].id = i - 1
        /\ gameState.letters[i].char = GameRoll[i]

\* C23: every placement solve() of solver.ts descends into takes at least
\* one letter from the remaining multiset: each frame holds fewer letters
\* than the frame that called it, and no frame repeats the grid and the
\* multiset of a frame below it on the stack
C23_DescentConsumesLetters ==
    pc = "search" =>
        \A i \in 2 .. Len(stack) :
            /\ countLetters(stack[i].availableLetters)
                   < countLetters(stack[i - 1].availableLetters)
            /\ \A j \in 1 .. (i - 1) :
                  ~(/\ stack[j].grid = stack[i].grid
                    /\ stack[j].availableLetters = stack[i].availableLetters)

\* C24: the recursion depth of solve() of solver.ts is at most 4: a descent
\* path places at most 4 words (the root frame has depth 0)
C24_DepthAtMostFour ==
    pc = "search" => Len(stack) - 1 <= 4

\* the per-letter rarity weights of the specification
RarityWeight(c) ==
    CASE c \in {"q", "z"} -> 10
      [] c = "x" -> 9
      [] c = "j" -> 8
      [] c = "k" -> 7
      [] c = "v" -> 6
      [] c \in {"w", "y"} -> 5
      [] c \in {"f", "b", "h", "m", "p"} -> 4
      [] c \in {"g", "c", "d", "u"} -> 3
      [] c \in {"l", "n", "r", "t", "s", "o"} -> 2
      [] OTHER -> 1

\* the rarity score of a word: the weights of the letters it draws from the
\* remaining multiset
RECURSIVE RarityOver(_, _, _)
RarityOver(word, availableLetters, S) ==
    IF S = {} THEN 0
    ELSE LET c == CHOOSE x \in S : TRUE
         IN RarityWeight(c) * Min(CountIn(word, c), availableLetters[c])
            + RarityOver(word, availableLetters, S \ {c})

RarityScore(word, availableLetters) ==
    RarityOver(word, availableLetters, {word[i] : i \in 1 .. Len(word)})

\* C25: in every frame of solve() of solver.ts the candidate words are tried
\* in order of rarity score descending, ties by word length descending
C25_CandidatesByRarity ==
    pc = "search" =>
        \A i \in 1 .. Len(stack) :
            stack[i].st = "loop" =>
                LET cands == candidateWords(stack[i].grid,
                                            stack[i].availableLetters,
                                            allWords, i - 1)
                    score(k) == RarityScore(cands[k], stack[i].availableLetters)
                IN \A k \in 1 .. (Len(cands) - 1) :
                      \/ score(k) > score(k + 1)
                      \/ (score(k) = score(k + 1)
                          /\ Len(cands[k]) >= Len(cands[k + 1]))

-----------------------------------------------------------------------------
\* Properties of the game state

\* the characters on a board of tiles
BoardChars(grid) ==
    [r \in Cells |-> [c \in Cells |->
        IF grid[r][c] = NullLetter THEN Null ELSE grid[r][c].char]]

\* the runs of length >= 2 of a board: direction, row or column, first and
\* last index
Runs(grid) ==
    {run \in [direction : {"horizontal", "vertical"}, fixed : Cells,
              a : Cells, b : Cells] :
        /\ run.b > run.a
        /\ MaximalRun(IF run.direction = "horizontal"
                      THEN RowOf(BoardChars(grid), run.fixed)
                      ELSE ColOf(BoardChars(grid), run.fixed), run.a, run.b)}

RunPositions(run) ==
    [k \in 1 .. (run.b - run.a + 1) |->
        IF run.direction = "horizontal"
        THEN [row |-> run.fixed, col |-> run.a + k - 1]
        ELSE [row |-> run.a + k - 1, col |-> run.fixed]]

RunChars(grid, run) ==
    [k \in 1 .. (run.b - run.a + 1) |->
        grid[RunPositions(run)[k].row][RunPositions(run)[k].col].char]

RunIsWord(grid, run) ==
    /\ run.b - run.a + 1 >= 3
    /\ LowerWord(RunChars(grid, run)) \in WordSet

\* the filled cells reached from the cells S over shared edges
RECURSIVE Grow(_, _)
Grow(filled, S) ==
    LET next == {rc \in filled \ S :
                    \E v \in S : \/ (rc[1] = v[1] /\ (rc[2] - v[2]) \in {-1, 1})
                                 \/ (rc[2] = v[2] /\ (rc[1] - v[1]) \in {-1, 1})}
    IN IF next = {} THEN S ELSE Grow(filled, S \cup next)

FilledConnected(grid) ==
    LET filled == {rc \in Cells \X Cells : grid[rc[1]][rc[2]] # NullLetter}
    IN \A rc \in filled : Grow(filled, {rc}) = filled

\* the win condition of the game
WinCondition(state) ==
    /\ Len(state.letters) = 12
    /\ \A i \in 1 .. Len(state.letters) : state.letters[i].position # NullPos
    /\ FilledConnected(state.grid)
    /\ Cardinality(Runs(state.grid)) >= 2
    /\ \A run \in Runs(state.grid) : RunIsWord(state.grid, run)
    /\ \A i \in 1 .. Len(state.letters) :
          \E run \in Runs(state.grid) :
             \E k \in DOMAIN RunPositions(run) :
                RunPositions(run)[k] = state.letters[i].position

\* words lists every run of the board once, with its cells and its verdict
WordsAreRuns(state) ==
    /\ Len(state.words) = Cardinality(Runs(state.grid))
    /\ \A run \in Runs(state.grid) :
          \E w \in 1 .. Len(state.words) :
             /\ state.words[w].direction = run.direction
             /\ state.words[w].positions = RunPositions(run)
             /\ state.words[w].word = RunChars(state.grid, run)
             /\ state.words[w].isValid = RunIsWord(state.grid, run)

\* a step took a tile off the board
TileTakenOff ==
    \E i \in 1 .. Len(gameState.letters) :
        /\ gameState.letters[i].position # NullPos
        /\ gameState'.letters[i].position = NullPos

\* C26: in every state of the game isWon is true exactly when the win
\* condition holds and words equals the runs of the grid, and a step that
\* takes a tile off the board leaves isWon false
C26_IsWonIsTheWinCondition ==
    /\ [](/\ gameState.isWon <=> WinCondition(gameState)
          /\ WordsAreRuns(gameState))
    /\ [][TileTakenOff => ~gameState'.isWon]_vars

\* the game is won: PIRATES across and MOSTLY down
C26_Witness ==
    /\ gameState.isWon
    /\ WinCondition(gameState)
    /\ Len(gameState.words) = 2

\* a cell holds a tile exactly when the position of that tile is the cell
GridMatchesTiles(state) ==
    \A r \in Cells : \A c \in Cells : \A i \in 1 .. Len(state.letters) :
        (/\ state.grid[r][c] # NullLetter
         /\ state.grid[r][c].id = state.letters[i].id)
            <=> state.letters[i].position = [row |-> r, col |-> c]

\* every filled cell holds a tile of the game
CellsHoldTiles(state) ==
    \A r \in Cells : \A c \in Cells :
        state.grid[r][c] # NullLetter =>
            \E i \in 1 .. Len(state.letters) :
                state.grid[r][c] = state.letters[i]

\* a step that moves a placed tile to another cell empties the cell it was on
MoveEmptiesOldCell ==
    \A i \in 1 .. Len(gameState.letters) :
        LET old == gameState.letters[i].position
            new == gameState'.letters[i].position
        IN (old # NullPos /\ new # NullPos /\ new # old) =>
              gameState'.grid[old.row][old.col] = NullLetter

\* C27: grid and tile list stay consistent: grid[r][c] holds tile t exactly
\* when t.position = (r, c), so no tile is on two cells and no cell holds two
\* tiles, and moving a placed tile to an empty cell empties its previous cell
C27_GridAndTilesConsistent ==
    /\ [](GridMatchesTiles(gameState) /\ CellsHoldTiles(gameState))
    /\ [][MoveEmptiesOldCell]_vars

\* the last tile has been put away from its cell, which is empty
C27_Witness ==
    /\ gameState.letters[Len(GameRoll)].position =
           [row |-> GRID_SIZE - 1, col |-> 0]
    /\ gameState.grid[Home(Len(GameRoll) - 1)[1]][Home(Len(GameRoll) - 1)[2]]
           = NullLetter
    /\ Len(placedOrder) = Len(GameRoll) - 1
    /\ placedOrder[Len(placedOrder)] = Len(GameRoll) - 1

\* the tile ids of the game and one id that is not in it
SomeIds == 0 .. Len(GameRoll)

HasTile(state, id) == \E i \in 1 .. Len(state.letters) : state.letters[i].id = id

\* C28: placeLetter with an occupied target cell or with a tile id that is
\* not in the game returns the state it was given, and so does removeLetter
\* with an unknown tile id or with a tile that is not placed
C28_RejectedCallsChangeNothing ==
    /\ \A id \in SomeIds : \A r \in Cells : \A c \in Cells :
          (gameState.grid[r][c] # NullLetter \/ ~HasTile(gameState, id)) =>
              placeLetter(gameState, id, r, c) = gameState
    /\ \A id \in SomeIds :
          (~HasTile(gameState, id) \/ ~IsPlaced(gameState, id)) =>
              removeLetter(gameState, id) = gameState

\* a board with tiles on it and a tile in the tray: the player's inputs
\* include the cell of the first tile, which is occupied, and an unknown id
C28_Witness ==
    /\ gameState.grid[Home(0)[1]][Home(0)[2]] # NullLetter
    /\ <<Len(GameRoll), Home(0)>> \in PlaceInputs
    /\ \E id \in LooseTiles :
          ~IsPlaced(gameState, id) /\ <<id, Home(0)>> \in PlaceInputs

\* C29: while a solve is in progress no action of the player changes the
\* game: the state on the screen is the cleared state plus the placements
\* handleSolve has applied so far
C29_SolveShowsOnlyItsPlacements ==
    isSolving => gameState = game

\* C30: Backspace removes the most recently placed letter: a Backspace step
\* takes the last tile of the order of placement off the grid and leaves
\* the tiles placed before it where they are
C30_BackspaceRemovesLastPlaced ==
    [][handleBackspace =>
          /\ Len(placedOrder) > 0
          /\ placedOrder' = SubSeq(placedOrder, 1, Len(placedOrder) - 1)]_vars

====
